---- MODULE Spec2Model ----
(***************************************************************************)
(* Model of the course-graph progress tracker of telegram-course-bot:      *)
(* the dependency graph (crates/course-graph/src/graph.rs), the two        *)
(* TaskProgressStore implementations (HashMap<String, TaskProgress> in     *)
(* crates/course-graph/src/progress_store.rs and UserProgress in           *)
(* crates/telegram-bot/src/event_handler/progress_store.rs), the time      *)
(* decay pass (Task::syncronize) and the reconciliation entry point        *)
(* (crates/telegram-bot/src/event_handler/mod.rs, syncronize).             *)
(***************************************************************************)
EXTENDS Integers, Sequences, FiniteSets, TLC

(***************************************************************************)
(* Bounds                                                                  *)
(***************************************************************************)
\* number of operations (detect runs, synchronisations, clock ticks) in one behaviour
MaxRuns == 2
\* the clock runs over 0..MaxTime
MaxTime == 1

\* card names of the propagation model, listed dependencies-first
CardNames == <<"a3", "b3", "d0">>
\* card names of the reconciliation model, listed dependencies-first
SyncCardNames == <<"a0", "a1">>
\* a parsed card names at most MaxDeps dependencies
MaxDeps == 2
\* a deck source has at most MaxLen characters
MaxLen == 6
\* courses inserted into STORAGE in one behaviour
MaxCourses == 2
\* calls on STORAGE in one behaviour
MaxCalls == 4
\* the thread's stack holds at most MaxPending pending propagation calls
MaxPending == 3
\* dialogues set for the user in one behaviour
MaxDialogues == 2
\* interactions a dialogue shows before its question
MaxShown == 2
\* card names a deck source may use
DeckNames == {"a", "b", "c"}

(***************************************************************************)
(* TaskProgress  (course-graph/src/progress_store.rs:7-13)                 *)
(***************************************************************************)
NotStarted(could_be_learned) == [tag |-> "NotStarted", could_be_learned |-> could_be_learned]
Good == [tag |-> "Good"]
Failed == [tag |-> "Failed"]
RecursiveFailed == [tag |-> "RecursiveFailed"]
TaskProgress == {NotStarted(TRUE), NotStarted(FALSE), Good, Failed, RecursiveFailed}

(***************************************************************************)
(* Generic helpers                                                         *)
(***************************************************************************)
Range(seq) == {seq[i] : i \in DOMAIN seq}
\* every order in which the elements of a finite set can be iterated
Orders(S) == {f \in [1..Cardinality(S) -> S] : \A i, j \in 1..Cardinality(S) : f[i] = f[j] => i = j}
IndexOf(seq, x) == CHOOSE i \in DOMAIN seq : seq[i] = x

(***************************************************************************)
(* CourseGraph: name -> CardNode{dependencies, dependents}.                *)
(* The graphs handed to the propagation are validated: acyclic, every      *)
(* dependency is a card, dependents is the inverse of dependencies; the    *)
(* order of a card's dependents list is whatever construction produced.    *)
(***************************************************************************)
DependencyMaps(names) ==
    {deps \in [Range(names) -> SUBSET Range(names)] :
        \A c \in Range(names) : \A d \in deps[c] : IndexOf(names, d) < IndexOf(names, c)}
InverseOf(deps, c) == {d \in DOMAIN deps : c \in deps[d]}
RECURSIVE DependentListsOver(_, _)
DependentListsOver(deps, S) ==
    IF S = {} THEN {<<>>}
    ELSE LET c == CHOOSE x \in S : TRUE
         IN  {(c :> o) @@ rest : o \in Orders(InverseOf(deps, c)),
                                rest \in DependentListsOver(deps, S \ {c})}
DependentLists(deps) == DependentListsOver(deps, DOMAIN deps)
CourseGraphs(names) ==
    UNION {{[c \in DOMAIN deps |-> [dependencies |-> deps[c], dependents |-> o[c]]] :
                o \in DependentLists(deps)} : deps \in DependencyMaps(names)}

VARIABLES
    cards,      \* CourseGraph.cards: name -> CardNode
    impl,       \* which TaskProgressStore implementation holds the progress
    store,      \* the store: name -> TaskProgress
    level,      \* UserProgress only: name -> memory-model handle of the Task
    now,        \* the clock read by syncronize
    pc,         \* position inside detect_recursive_fails: "idle" or "phaseB"
    op,         \* the operation that produced the current state
    start,      \* the store when the current/last operation was entered
    before,     \* the store before the last step
    streak,     \* how many times op ran back to back on unchanged inputs
    panicked,   \* the last operation aborted on its assertion
    runs,       \* operations executed so far
    course,     \* COURSES_STORE entry of the learner: the Course
    handlers,   \* the spawned handle_event tasks still running: slot -> task
    lock,       \* slot of the task holding the PROGRESS_STORE entry (RefMut), 0 if free
    reply,      \* how the handle_event task ended that the last step ended, if any
    before_level, \* the levels before the last step
    card_prototypes, \* Deque::from_str: the parsed cards not built yet, name -> dependencies
    storage,    \* STORAGE: the Courses behind the mutex
    call,       \* the last call on STORAGE: its arguments, what it found, what it returned
    parser,     \* DequePrototype::from_str: the source read so far and the locals of the loop
    walk,       \* detect_recursive_fails: the keys left to iterate and the calls not yet made
    course_lock, \* slot of the task holding the COURSES_STORE entry (RefMut), 0 if free
    dialogue    \* STATE entry of the user, the oneshot channels and what the user was sent

\* the state around the progress tracker: the bot's, the deck builder's, the
\* storage's, the parser's and the position inside the propagation
bot == <<course, handlers, lock, reply, before_level, card_prototypes, storage, call, parser,
        walk, course_lock, dialogue>>
vars == <<cards, impl, store, level, now, pc, op, start, before, streak, panicked, runs, bot>>

(***************************************************************************)
(* HashMap<String, TaskProgress> as TaskProgressStore                      *)
(***************************************************************************)
HashMap_init(s, id) ==
    IF id \in DOMAIN s THEN s
    ELSE [x \in DOMAIN s \cup {id} |-> IF x = id THEN NotStarted(TRUE) ELSE s[x]]

HashMap_update_recursive_failed(s, id) ==
    CASE s[id].tag = "NotStarted" -> [s EXCEPT ![id] = NotStarted(FALSE)]
      [] s[id] = Good -> [s EXCEPT ![id] = RecursiveFailed]
      [] OTHER -> s

HashMap_update_no_recursive_failed(s, id) ==
    CASE s[id].tag = "NotStarted" -> [s EXCEPT ![id] = NotStarted(TRUE)]
      [] s[id] = RecursiveFailed -> [s EXCEPT ![id] = Good]
      [] OTHER -> s

(***************************************************************************)
(* UserProgress as TaskProgressStore                                       *)
(***************************************************************************)
\* slip: a RecursiveFailed card whose parents are still wrong is taken for Failed
update_parents_info_rf_to_failed(progress, is_all_parents_correct) ==
    CASE progress.tag = "NotStarted" -> NotStarted(is_all_parents_correct)
      [] progress = Good -> IF ~is_all_parents_correct THEN RecursiveFailed ELSE Good
      [] progress = Failed -> Failed
      [] progress = RecursiveFailed -> IF is_all_parents_correct THEN Good ELSE Failed

\* slip: a Good card whose parents are wrong is put back to NotStarted
update_parents_info_forgets(progress, is_all_parents_correct) ==
    CASE progress.tag = "NotStarted" -> NotStarted(is_all_parents_correct)
      [] progress = Good -> IF ~is_all_parents_correct THEN NotStarted(FALSE) ELSE Good
      [] progress = Failed -> Failed
      [] progress = RecursiveFailed -> IF is_all_parents_correct THEN Good ELSE RecursiveFailed

\* slip: the RecursiveFailed arm tests the flag negated
update_parents_info_flipped(progress, is_all_parents_correct) ==
    CASE progress.tag = "NotStarted" -> NotStarted(is_all_parents_correct)
      [] progress = Good -> IF ~is_all_parents_correct THEN RecursiveFailed ELSE Good
      [] progress = Failed -> Failed
      [] progress = RecursiveFailed -> IF ~is_all_parents_correct THEN Good ELSE RecursiveFailed

update_parents_info(progress, is_all_parents_correct) ==
    CASE progress.tag = "NotStarted" -> NotStarted(is_all_parents_correct)
      [] progress = Good -> IF ~is_all_parents_correct THEN RecursiveFailed ELSE Good
      [] progress = Failed -> Failed
      [] progress = RecursiveFailed -> IF is_all_parents_correct THEN Good ELSE RecursiveFailed

UserProgress_update_recursive_failed(s, id) ==
    [s EXCEPT ![id] = update_parents_info(s[id], FALSE)]

UserProgress_update_no_recursive_failed(s, id) ==
    [s EXCEPT ![id] = update_parents_info(s[id], TRUE)]

\* trait dispatch
update_recursive_failed(i, s, id) ==
    IF i = "HashMap" THEN HashMap_update_recursive_failed(s, id)
    ELSE UserProgress_update_recursive_failed(s, id)

update_no_recursive_failed(i, s, id) ==
    IF i = "HashMap" THEN HashMap_update_no_recursive_failed(s, id)
    ELSE UserProgress_update_no_recursive_failed(s, id)

(***************************************************************************)
(* CourseGraph propagation  (course-graph/src/graph.rs:80-115)             *)
(***************************************************************************)
RECURSIVE propagate_fail(_, _, _, _)
RECURSIVE propagate_fail_each(_, _, _, _)
\* slip: the failure is recorded on the card and not carried to its dependents
propagate_fail_shallow(g, i, s, name) ==
    update_recursive_failed(i, s, name)

propagate_fail(g, i, s, name) ==
    propagate_fail_each(g, i, update_recursive_failed(i, s, name), g[name].dependents)
\* .dependents.iter().for_each(|x| self.propagate_fail(x, store))
propagate_fail_each(g, i, s, names) ==
    IF names = <<>> THEN s
    ELSE propagate_fail_each(g, i, propagate_fail(g, i, s, Head(names)), Tail(names))

RECURSIVE propagate_no_fail(_, _, _, _)
RECURSIVE propagate_no_fail_each(_, _, _, _)
\* slip: all() written for any(): one Good dependency is enough to recover
propagate_no_fail_all(g, i, s, name) ==
    IF g[name].dependencies # {} /\ \A x \in g[name].dependencies : s[x] # Good
    THEN s
    ELSE propagate_no_fail_each(g, i, update_no_recursive_failed(i, s, name), g[name].dependents)

\* slip: the recovery is applied to the card and not carried to its dependents
propagate_no_fail_shallow(g, i, s, name) ==
    IF \E x \in g[name].dependencies : s[x] # Good
    THEN s
    ELSE update_no_recursive_failed(i, s, name)

propagate_no_fail(g, i, s, name) ==
    IF \E x \in g[name].dependencies : s[x] # Good
    THEN s
    ELSE propagate_no_fail_each(g, i, update_no_recursive_failed(i, s, name), g[name].dependents)
\* .dependents.iter().for_each(|x| self.propagate_no_fail(x, store))
propagate_no_fail_each(g, i, s, names) ==
    IF names = <<>> THEN s
    ELSE propagate_no_fail_each(g, i, propagate_no_fail(g, i, s, Head(names)), Tail(names))

\* The recursion one call at a time.  `calls` lists the calls not yet made,
\* the next one first: a call made from inside a call runs before the calls
\* that follow the outer one.  A call yields the store it leaves and the
\* calls still to make.
NoWalk == [keys |-> <<>>, calls |-> <<>>, name |-> "", made |-> <<>>]

\* slip: the closure passes the card itself, not the dependent
propagate_fail_call_same(g, i, s, calls) ==
    LET name == Head(calls)
    IN  [store |-> update_recursive_failed(i, s, name),
         made |-> [x \in DOMAIN g[name].dependents |-> name]]

\* one call of propagate_fail (graph.rs:80-86): `made` are the calls it makes
propagate_fail_call(g, i, s, calls) ==
    LET name == Head(calls)
    IN  [store |-> update_recursive_failed(i, s, name),
         made |-> g[name].dependents]

\* slip: all() written for any(): one Good dependency is enough to recover
propagate_no_fail_call_all(g, i, s, calls) ==
    LET name == Head(calls)
    IN  IF g[name].dependencies # {} /\ \A x \in g[name].dependencies : s[x] # Good
        THEN [store |-> s, made |-> <<>>]
        ELSE [store |-> update_no_recursive_failed(i, s, name),
              made |-> g[name].dependents]

\* one call of propagate_no_fail (graph.rs:88-101)
propagate_no_fail_call(g, i, s, calls) ==
    LET name == Head(calls)
    IN  IF \E x \in g[name].dependencies : s[x] # Good
        THEN [store |-> s, made |-> <<>>]
        ELSE [store |-> update_no_recursive_failed(i, s, name),
              made |-> g[name].dependents]

\* first loop of detect_recursive_fails, the keys iterated in the order `keys`
RECURSIVE fail_pass(_, _, _, _)
fail_pass(g, i, s, keys) ==
    IF keys = <<>> THEN s
    ELSE fail_pass(g, i,
                   IF s[Head(keys)] = Failed THEN propagate_fail(g, i, s, Head(keys)) ELSE s,
                   Tail(keys))

\* second loop of detect_recursive_fails, the keys iterated in the order `keys`
RECURSIVE no_fail_pass(_, _, _, _)
no_fail_pass(g, i, s, keys) ==
    IF keys = <<>> THEN s
    ELSE no_fail_pass(g, i, propagate_no_fail(g, i, s, Head(keys)), Tail(keys))

detect_recursive_fails(g, i, s, keysA, keysB) ==
    no_fail_pass(g, i, fail_pass(g, i, s, keysA), keysB)

(***************************************************************************)
(* Memory model handle of a Task (ssr_algorithms::fsrs::level::Level).     *)
(* The library is consumed through three calls; a level is the review      *)
(* history together with the timestamp the library answers for it.         *)
(***************************************************************************)
Quality == {"Good", "Again"}
RepetitionContext == [quality : Quality, review_time : 0..MaxTime]
\* a level without reviews is due at every time the clock shows
Level_default == [history |-> <<>>, next |-> -1]
\* Level::next_repetition(fsrs, retrievability_goal)
next_repetition(lvl) == lvl.next
\* Level::failed(): the last recorded outcome was negative
failed(lvl) == lvl.history # <<>> /\ lvl.history[Len(lvl.history)].quality = "Again"
\* the levels a Task is drawn with: no review yet, or one review of either quality
SeedLevels ==
    {[history |-> h, next |-> n] :
        h \in {<<>>} \cup {<<[quality |-> q, review_time |-> 0]>> : q \in Quality},
        n \in 0..MaxTime}

(***************************************************************************)
(* Task::syncronize  (telegram-bot/src/event_handler/progress_store.rs)    *)
(***************************************************************************)
\* assert!(time_to_repeat) of the NotStarted{could_be_learned: false} arm fails
Task_syncronize_panics(progress, lvl, t) ==
    LET time_to_repeat == next_repetition(lvl) < t
    IN  progress = NotStarted(FALSE) /\ ~time_to_repeat

\* slip: only Good decays, RecursiveFailed is left out of the arm
Task_syncronize_good_only(progress, lvl, t) ==
    LET time_to_repeat == next_repetition(lvl) < t
    IN  CASE progress = NotStarted(FALSE) -> progress
          [] progress = Good -> IF time_to_repeat THEN Failed ELSE progress
          [] progress = RecursiveFailed -> progress
          [] progress \in {Failed, NotStarted(TRUE)} ->
                IF ~failed(lvl) THEN Good ELSE progress

Task_syncronize(progress, lvl, t) ==
    LET time_to_repeat == next_repetition(lvl) < t
    IN  CASE progress = NotStarted(FALSE) -> progress
          [] progress \in {Good, RecursiveFailed} ->
                IF time_to_repeat THEN Failed ELSE progress
          [] progress \in {Failed, NotStarted(TRUE)} ->
                IF ~failed(lvl) THEN Good ELSE progress

\* slip: a task also fails as soon as any task of the map is due
UserProgress_syncronize_neighbours(s, lv, t) ==
    {[store |-> [c \in DOMAIN s |->
                    IF \E d \in DOMAIN s : s[d] = Good /\ next_repetition(lv[d]) < t
                    THEN Failed ELSE Task_syncronize(s[c], lv[c], t)],
      panicked |-> FALSE]}

\* UserProgress::syncronize: every task in the map's iteration order; a failed
\* assertion unwinds out of the loop and leaves the tasks visited so far updated.
UserProgress_syncronize(s, lv, t) ==
    LET bad == {c \in DOMAIN s : Task_syncronize_panics(s[c], lv[c], t)}
    IN  IF bad = {}
        THEN {[store |-> [c \in DOMAIN s |-> Task_syncronize(s[c], lv[c], t)],
               panicked |-> FALSE]}
        ELSE {[store |-> [c \in DOMAIN s |->
                            IF c \in done THEN Task_syncronize(s[c], lv[c], t) ELSE s[c]],
               panicked |-> TRUE] : done \in SUBSET (DOMAIN s \ bad)}

(***************************************************************************)
(* Task::add_repetition and UserProgress::repetition / revise              *)
(* (telegram-bot/src/event_handler/progress_store.rs:61-126)               *)
(***************************************************************************)
\* how far after a review the library may put the next repetition, in clock ticks
Intervals == {0, 1}
\* Level::add_repetition: the outcome is appended, the library reschedules the card
Level_add_repetition(lvl, repetition) ==
    {[history |-> Append(lvl.history, repetition), next |-> repetition.review_time + i] :
        i \in Intervals}

\* slip: the refusal is returned after the outcome was recorded
Task_add_repetition_records_first(progress, lvl, repetition) ==
    IF progress \in {NotStarted(FALSE), Good}
    THEN {[result |-> "Err", level |-> l] : l \in Level_add_repetition(lvl, repetition)}
    ELSE {[result |-> "Ok", level |-> l] : l \in Level_add_repetition(lvl, repetition)}

\* slip: a Failed card is refused as well
Task_add_repetition_refuses_failed(progress, lvl, repetition) ==
    IF progress \in {NotStarted(FALSE), Good, Failed}
    THEN {[result |-> "Err", level |-> lvl]}
    ELSE {[result |-> "Ok", level |-> l] : l \in Level_add_repetition(lvl, repetition)}

\* Task::add_repetition: the possible (result, level) pairs; progress is never touched
Task_add_repetition(progress, lvl, repetition) ==
    IF progress \in {NotStarted(FALSE), Good}
    THEN {[result |-> "Err", level |-> lvl]}
    ELSE {[result |-> "Ok", level |-> l] : l \in Level_add_repetition(lvl, repetition)}

\* UserProgress::repetition: get_mut(id).unwrap().add_repetition(..).expect(..)
UserProgress_repetition(s, lv, id, repetition) ==
    IF id \notin DOMAIN s
    THEN {[level |-> lv, result |-> "None", panicked |-> TRUE]}
    ELSE {[level |-> [lv EXCEPT ![id] = r.level], result |-> r.result,
           panicked |-> r.result = "Err"] :
              r \in Task_add_repetition(s[id], lv[id], repetition)}

(***************************************************************************)
(* Course  (telegram-bot/src/event_handler/course.rs)                      *)
(* A deque is modelled by the names of its tasks; Option<T> by a sequence  *)
(* of length at most one.  DEFAULT_COURSE_GRAPH is the variable cards and  *)
(* DEFAULT_DEQUE has a task for each of its cards.                         *)
(***************************************************************************)
None == <<>>
Some(x) == <<x>>
Course_default == [course_graph |-> None, deque |-> None, has_errors |-> FALSE]

get_course_graph(crs) ==
    IF crs.course_graph # None /\ ~crs.has_errors THEN crs.course_graph[1] ELSE cards
get_deque(crs) ==
    IF crs.deque # None /\ ~crs.has_errors THEN crs.deque[1] ELSE DOMAIN cards
get_errors(crs) ==
    {<<"Graph has card, but deque doesn't", id>> :
        id \in {x \in DOMAIN get_course_graph(crs) : x \notin get_deque(crs)}}
    \cup {<<"Deque has card, but graph doesn't", id>> :
        id \in {x \in get_deque(crs) : x \notin DOMAIN cards}}
set_course_graph(crs, course_graph) ==
    LET c == [crs EXCEPT !.course_graph = Some(course_graph)]
    IN  [c EXCEPT !.has_errors = get_errors(c) # {}]
set_deque(crs, deque) ==
    LET c == [crs EXCEPT !.deque = Some(deque)]
    IN  [c EXCEPT !.has_errors = get_errors(c) # {}]

\* slip: the new task starts learnable
UserProgress_init_learnable(s, id) ==
    [x \in DOMAIN s \cup {id} |-> IF x = id THEN NotStarted(TRUE) ELSE s[x]]

\* UserProgress::init: Task::default() is NotStarted{could_be_learned: false};
\* init_store names every card once, so the insert never finds a previous task
UserProgress_init(s, id) ==
    [x \in DOMAIN s \cup {id} |-> IF x = id THEN NotStarted(FALSE) ELSE s[x]]
\* CourseGraph::init_store: store.init(id) for every key of the graph
RECURSIVE init_store(_, _, _)
init_store(i, s, keys) ==
    IF keys = <<>> THEN s
    ELSE init_store(i,
                    IF i = "HashMap" THEN HashMap_init(s, Head(keys))
                    ELSE UserProgress_init(s, Head(keys)),
                    Tail(keys))
\* the keys of a graph in one iteration order
SomeOrder(S) == CHOOSE o \in Orders(S) : TRUE
\* Course::default_user_progress: an empty UserProgress initialised from the graph
default_user_progress(crs) ==
    LET g == get_course_graph(crs)
    IN  [store |-> init_store("UserProgress", <<>>, SomeOrder(DOMAIN g)),
         level |-> [c \in DOMAIN g |-> Level_default]]

\* PROGRESS_STORE holds no entry for the learner yet
NoEntry == <<>>
\* get_progress: entry(user_id).or_insert_with(|| get_course(user_id).default_user_progress())
get_progress(s, lv, crs) ==
    IF s = NoEntry THEN default_user_progress(crs) ELSE [store |-> s, level |-> lv]

(***************************************************************************)
(* STORAGE  (telegram-bot/src/main.rs:32-163): Courses behind a mutex.     *)
(* A course is modelled by its owner, a learner's progress map by the set  *)
(* of courses it has an entry for.                                         *)
(***************************************************************************)
UserIds == {1, 2}
CourseIds == 0..MaxCourses
Courses_new == [next_course_id |-> 0, courses |-> <<>>, progress |-> <<>>]
NoCall == [fn |-> "none", user_id |-> 0, course_id |-> 0, exists |-> FALSE,
           tracked |-> FALSE, result |-> "none"]

\* self.progress.entry(user_id).or_default()
entry_or_default(progress, user_id) ==
    IF user_id \in DOMAIN progress THEN progress
    ELSE [u \in DOMAIN progress \cup {user_id} |-> IF u = user_id THEN {} ELSE progress[u]]

\* Courses::insert: the course gets the next id
Courses_insert(c, owner_id) ==
    [c EXCEPT !.next_course_id = @ + 1,
              !.courses = [i \in DOMAIN c.courses \cup {c.next_course_id} |->
                              IF i = c.next_course_id THEN owner_id ELSE c.courses[i]]]

\* Courses::add_course_to_user: get_course(course_id).unwrap(), the owner is
\* answered true at once, otherwise the entry decides
Courses_add_course_to_user(c, user_id, course_id) ==
    IF course_id \notin DOMAIN c.courses
    THEN [storage |-> c, result |-> "panic"]
    ELSE IF c.courses[course_id] = user_id
    THEN [storage |-> c, result |-> "true"]
    ELSE LET p == entry_or_default(c.progress, user_id)
         IN  IF course_id \notin p[user_id]
             THEN [storage |-> [c EXCEPT !.progress = [p EXCEPT ![user_id] = @ \cup {course_id}]],
                   result |-> "true"]
             ELSE [storage |-> [c EXCEPT !.progress = p], result |-> "false"]

\* a learner has a progress entry for the course
Tracked(c, user_id, course_id) ==
    user_id \in DOMAIN c.progress /\ course_id \in c.progress[user_id]

(***************************************************************************)
(* DequePrototype::from_str  (course-graph/src/parsing/prototypes.rs:      *)
(* 40-266).  A string is a sequence of characters; spans are left out.     *)
(***************************************************************************)
\* the characters of a source: letters in both cases, and every separator
Alphabet == {"a", "A", "b", " ", ":", ",", "\n"}
is_alphanumeric(ch) == ch \in {"a", "A", "b"}
\* char::to_lowercase
char_to_lowercase(ch) == IF ch = "A" THEN "a" ELSE ch
\* slip: the string is stored as written
to_lowercase_kept(str) == str
\* str::to_lowercase
to_lowercase(str) == [i \in DOMAIN str |-> char_to_lowercase(str[i])]
ends_with_space(str) == str # <<>> /\ str[Len(str)] = " "
\* str::trim_end
RECURSIVE trim_end(_)
trim_end(str) == IF ends_with_space(str) THEN trim_end(SubSeq(str, 1, Len(str) - 1)) ELSE str

\* the locals before the first character; inserts counts the calls of cards.insert
NoParser == [source |-> <<>>, state |-> "Default", name |-> <<>>, dependencies |-> <<>>,
             current_dependency |-> <<>>, cards |-> <<>>, error |-> "", inserts |-> 0]
\* return Err(Rich::custom(span, message)): the locals are dropped
Err(p, message) ==
    [NoParser EXCEPT !.source = p.source, !.state = "Err", !.error = message]
\* cards.insert(name, dependencies) and the check of the previous value
insert(p, name, dependencies) ==
    IF name \in DOMAIN p.cards
    THEN Err(p, "duplicate definition of card dependencies")
    ELSE [NoParser EXCEPT
            !.source = p.source,
            !.inserts = p.inserts + 1,
            !.cards = [x \in DOMAIN p.cards \cup {name} |->
                          IF x = name THEN dependencies ELSE p.cards[x]]]

\* State::Default
step_Default(p, ch) ==
    IF ch = "\n" THEN p
    ELSE IF is_alphanumeric(ch) THEN [p EXCEPT !.state = "NameParsing", !.name = <<ch>>]
    ELSE Err(p, "unexpected character, card name expected")

\* State::NameParsing
step_NameParsing(p, ch) ==
    IF ch = "\n" THEN insert(p, to_lowercase(p.name), <<>>)
    ELSE IF is_alphanumeric(ch) \/ ch = " " THEN [p EXCEPT !.name = Append(@, ch)]
    ELSE IF ch = ":"
    THEN IF ends_with_space(p.name)
         THEN Err(p, "space in not allowed between card name and column")
         ELSE [p EXCEPT !.state = "DependenciesParsing", !.name = to_lowercase(p.name),
                        !.dependencies = <<>>]
    ELSE Err(p, "unexpected character, expected card name continuation or column")

\* State::DependenciesParsing
step_DependenciesParsing(p, ch) ==
    IF ch = " " THEN p
    ELSE IF is_alphanumeric(ch)
    THEN [p EXCEPT !.state = "DependencyParsing", !.current_dependency = <<ch>>]
    ELSE IF ch = "\n" THEN Err(p, "dependency name expected")
    ELSE Err(p, "unexpected character")

\* the last dependency of a line: trailing spaces are cut, the name is pushed
\* without looking for it among the dependencies, the card is inserted
end_of_dependencies(p) ==
    insert(p, p.name, Append(p.dependencies, to_lowercase(trim_end(p.current_dependency))))

\* State::DependencyParsing
step_DependencyParsing(p, ch) ==
    IF ch = "\n" THEN end_of_dependencies(p)
    ELSE IF is_alphanumeric(ch) \/ ch = " "
    THEN [p EXCEPT !.current_dependency = Append(@, ch)]
    ELSE IF ch = ","
    THEN IF ends_with_space(p.current_dependency)
         THEN Err(p, "space in not allowed in card names")
         ELSE IF to_lowercase(p.current_dependency) \in Range(p.dependencies)
         THEN Err(p, "duplicated dependency specified")
         ELSE [p EXCEPT !.state = "DependenciesParsing",
                        !.dependencies = Append(@, to_lowercase(p.current_dependency)),
                        !.current_dependency = <<>>]
    ELSE Err(p, "unexpected character")

\* one turn of for (ix, ch) in s.char_indices()
step(p, ch) ==
    LET q == [p EXCEPT !.source = Append(@, ch)]
    IN  CASE p.state = "Default" -> step_Default(q, ch)
          [] p.state = "NameParsing" -> step_NameParsing(q, ch)
          [] p.state = "DependenciesParsing" -> step_DependenciesParsing(q, ch)
          [] p.state = "DependencyParsing" -> step_DependencyParsing(q, ch)
          [] OTHER -> p

\* slip: a line that ends while a dependency is awaited is taken as it is
finish_lenient(p) ==
    LET r == CASE p.state = "Default" -> p
               [] p.state = "NameParsing" -> insert(p, to_lowercase(p.name), <<>>)
               [] p.state = "DependenciesParsing" -> insert(p, p.name, p.dependencies)
               [] p.state = "DependencyParsing" -> end_of_dependencies(p)
               [] OTHER -> p
    IN  IF r.state = "Err" THEN r ELSE [r EXCEPT !.state = "Ok"]

\* match state { .. } after the loop, then Ok(Self { cards })
finish(p) ==
    LET r == CASE p.state = "Default" -> p
               [] p.state = "NameParsing" -> insert(p, to_lowercase(p.name), <<>>)
               [] p.state = "DependenciesParsing" -> Err(p, "dependency name expected")
               [] p.state = "DependencyParsing" -> end_of_dependencies(p)
               [] OTHER -> p
    IN  IF r.state = "Err" THEN r ELSE [r EXCEPT !.state = "Ok"]

\* the loop over a whole string
RECURSIVE read(_, _)
read(p, str) ==
    IF str = <<>> \/ p.state = "Err" THEN p ELSE read(step(p, Head(str)), Tail(str))
\* DequePrototype::from_str
from_str(str) ==
    LET p == read(NoParser, str)
    IN  IF p.state = "Err" THEN p ELSE finish(p)

(***************************************************************************)
(* Dialogues  (telegram-bot/src/handlers.rs).  STATE holds the State of    *)
(* the user: no entry, Idle, or UserEvent{..}.  The handlers hold the      *)
(* RefMut of the entry from their first access to their return.  Every     *)
(* call of the bot API can fail, and `?` returns from the handler then.    *)
(* rand::random() yields a number not used before.  A waiter is the        *)
(* receiving end of the oneshot channel a dialogue was set with.           *)
(***************************************************************************)
Absent == [tag |-> "Absent"]
Idle == [tag |-> "Idle"]
UserEvent(interactions, current, current_id, current_message, answers, channel) ==
    [tag |-> "UserEvent", interactions |-> interactions, current |-> current,
     current_id |-> current_id, current_message |-> current_message, answers |-> answers,
     channel |-> channel]
NoInput == [rand_id |-> 0, response |-> ""]
\* origin: for each collected answer, the waiter whose dialogue asked for it;
\* sent: the keyboards the user was shown; presses: the callbacks recorded as
\* answers; was, input, result: the State before the last handler, what the
\* handler was given and how it ended
NoDialogue ==
    [state |-> Absent, waiters |-> <<>>, next_id |-> 1, sent |-> {}, origin |-> <<>>,
     presses |-> <<>>, was |-> Absent, input |-> NoInput, result |-> ""]
NoWaiter == [interactions |-> <<>>, got |-> "waiting", answers |-> <<>>, origin |-> <<>>,
             deliveries |-> 0, receiver |-> "alive"]
\* interactions[*current], counted from 0
Interaction(s) == s.interactions[s.current + 1]
\* the waiter the State in d was set for
Owner(d) == Len(d.waiters)

\* slip: the State is not put back to Idle after the answers are sent
deliver_stays(d) ==
    LET s == d.state
    IN  IF s.channel = None \/ d.waiters[s.channel[1]].receiver = "dropped"
        THEN [d EXCEPT !.state.channel = None, !.result = "panic"]
        ELSE [d EXCEPT !.waiters[s.channel[1]].got = "answers",
                       !.waiters[s.channel[1]].answers = s.answers,
                       !.waiters[s.channel[1]].origin = d.origin,
                       !.waiters[s.channel[1]].deliveries = @ + 1,
                       !.result = "Ok"]

\* channel.take().unwrap().send(answers.clone()).unwrap(); *state = State::Idle
\* (handlers.rs:226-227)
deliver(d) ==
    LET s == d.state
    IN  IF s.channel = None \/ d.waiters[s.channel[1]].receiver = "dropped"
        THEN [d EXCEPT !.state.channel = None, !.result = "panic"]
        ELSE [d EXCEPT !.waiters[s.channel[1]].got = "answers",
                       !.waiters[s.channel[1]].answers = s.answers,
                       !.waiters[s.channel[1]].origin = d.origin,
                       !.waiters[s.channel[1]].deliveries = @ + 1,
                       !.state = Idle,
                       !.origin = <<>>,
                       !.result = "Ok"]

RECURSIVE progress_on_user_event_unanswered(_)
\* slip: an interaction that is only shown gets no answer
progress_on_user_event_unanswered(d) ==
    LET s == d.state
    IN  IF s.tag # "UserEvent" THEN {[d EXCEPT !.result = "panic"]}
        ELSE IF s.current >= Len(s.interactions) THEN {deliver(d)}
        ELSE IF Interaction(s) = "OneOf"
        THEN LET asked == [d EXCEPT !.state.current_id = d.next_id, !.next_id = @ + 1]
             IN  {[asked EXCEPT !.result = "Err"],
                  [asked EXCEPT !.state.current_message = Some(d.next_id),
                                !.sent = @ \cup {[id |-> d.next_id, owner |-> Owner(d)]},
                                !.result = "Ok"]}
        ELSE IF Interaction(s) = "UserInput"
        THEN {[d EXCEPT !.result = "Err"],
              [d EXCEPT !.state.current_message = Some(d.next_id),
                        !.state.current_id = d.next_id,
                        !.next_id = @ + 1,
                        !.result = "Ok"]}
        ELSE {[d EXCEPT !.result = "Err"]}
             \cup progress_on_user_event_unanswered([d EXCEPT !.state.current = @ + 1])

RECURSIVE progress_on_user_event(_)
\* progress_on_user_event (handlers.rs:207-271): the outcomes of the loop
progress_on_user_event(d) ==
    LET s == d.state
    IN  IF s.tag # "UserEvent" THEN {[d EXCEPT !.result = "panic"]}
        ELSE IF s.current >= Len(s.interactions) THEN {deliver(d)}
        ELSE IF Interaction(s) = "OneOf"
        THEN \* 232-239: the id is drawn, then the keyboard is sent
             LET asked == [d EXCEPT !.state.current_id = d.next_id, !.next_id = @ + 1]
             IN  {[asked EXCEPT !.result = "Err"],
                  [asked EXCEPT !.state.current_message = Some(d.next_id),
                                !.sent = @ \cup {[id |-> d.next_id, owner |-> Owner(d)]},
                                !.result = "Ok"]}
        ELSE IF Interaction(s) = "UserInput"
        THEN \* 248-254: the prompt is sent, then the id is drawn
             {[d EXCEPT !.result = "Err"],
              [d EXCEPT !.state.current_message = Some(d.next_id),
                        !.state.current_id = d.next_id,
                        !.next_id = @ + 1,
                        !.result = "Ok"]}
        ELSE \* Text, Image, PersonalImage: sent, then current += 1 and answers.push("")
             {[d EXCEPT !.result = "Err"]}
             \cup progress_on_user_event([d EXCEPT !.state.current = @ + 1,
                                                   !.state.answers = Append(@, ""),
                                                   !.origin = Append(@, Owner(d))])

\* slip: the new dialogue goes on from the answers and the id of the one it replaces
set_task_for_user_continues(d, interactions) ==
    LET old == d.state
        dropped == IF old.tag = "UserEvent" /\ old.channel # None
                   THEN [d.waiters EXCEPT ![old.channel[1]].got = "cancelled"]
                   ELSE d.waiters
        waiters == Append(dropped, [NoWaiter EXCEPT !.interactions = interactions])
        carried == old.tag = "UserEvent" /\ old.current < Len(interactions)
    IN  progress_on_user_event(
            [d EXCEPT !.waiters = waiters,
                      !.state = IF carried
                                THEN [old EXCEPT !.interactions = interactions,
                                                 !.channel = Some(Len(waiters))]
                                ELSE UserEvent(interactions, 0, d.next_id, None, <<>>,
                                               Some(Len(waiters))),
                      !.origin = IF carried THEN d.origin ELSE <<>>,
                      !.next_id = @ + 1])

\* set_task_for_user (handlers.rs:122-141): the State assigned over is dropped,
\* and with it the Sender of the dialogue it held
set_task_for_user(d, interactions) ==
    LET old == d.state
        dropped == IF old.tag = "UserEvent" /\ old.channel # None
                   THEN [d.waiters EXCEPT ![old.channel[1]].got = "cancelled"]
                   ELSE d.waiters
        waiters == Append(dropped, [NoWaiter EXCEPT !.interactions = interactions])
    IN  progress_on_user_event(
            [d EXCEPT !.waiters = waiters,
                      !.state = UserEvent(interactions, 0, d.next_id, None, <<>>,
                                          Some(Len(waiters))),
                      !.origin = <<>>,
                      !.next_id = @ + 1])

\* the waiter a keyboard was sent for
AskedBy(d, rand_id) ==
    IF \E k \in d.sent : k.id = rand_id
    THEN (CHOOSE k \in d.sent : k.id = rand_id).owner
    ELSE 0

\* slip: the id of the callback is not compared with current_id
callback_handler_any_id(d, q) ==
    LET s == d.state
    IN  IF s.tag # "UserEvent" THEN {[d EXCEPT !.result = "Ok"]}
        ELSE IF s.current_message = None THEN {[d EXCEPT !.result = "panic"]}
        ELSE {[d EXCEPT !.result = "Err"]}
             \cup progress_on_user_event(
                    [d EXCEPT !.state.answers = Append(@, q.response),
                              !.state.current = @ + 1,
                              !.origin = Append(@, AskedBy(d, q.rand_id)),
                              !.presses = Append(@, q)])

\* callback_handler (handlers.rs:143-205) on the callback data "rand_id response"
callback_handler(d, q) ==
    LET s == d.state
    IN  IF s.tag # "UserEvent" THEN {[d EXCEPT !.result = "Ok"]}
        ELSE IF q.rand_id # s.current_id THEN {[d EXCEPT !.result = "Ok"]}
        ELSE IF s.current_message = None THEN {[d EXCEPT !.result = "panic"]}
        ELSE \* 192-202: the question is edited, then the answer recorded
             {[d EXCEPT !.result = "Err"]}
             \cup progress_on_user_event(
                    [d EXCEPT !.state.answers = Append(@, q.response),
                              !.state.current = @ + 1,
                              !.origin = Append(@, AskedBy(d, q.rand_id)),
                              !.presses = Append(@, q)])

\* message_handler (handlers.rs:72-104) on a text that is no command
message_handler(d, text) ==
    LET s == d.state
    IN  IF s.tag = "Absent" THEN {[d EXCEPT !.state = Idle, !.result = "Ok"]}
        ELSE IF s.tag = "Idle" THEN {[d EXCEPT !.result = "Ok"]}
        ELSE IF s.current >= Len(s.interactions) THEN {[d EXCEPT !.result = "panic"]}
        ELSE IF Interaction(s) # "UserInput" THEN {[d EXCEPT !.result = "Ok"]}
        ELSE IF s.current_message = None THEN {[d EXCEPT !.result = "panic"]}
        ELSE \* 85-94: the prompt is deleted, then the input recorded
             {[d EXCEPT !.result = "Err"]}
             \cup progress_on_user_event(
                    [d EXCEPT !.state.answers = Append(@, text),
                              !.state.current = @ + 1,
                              !.state.current_id = d.next_id,
                              !.next_id = @ + 1,
                              !.origin = Append(@, Owner(d))])

(***************************************************************************)
(* handle_event tasks  (telegram-bot/src/event_handler/mod.rs:81-316)      *)
(***************************************************************************)
\* the tasks event_handler can have spawned and not yet finished
Slots == {1, 2}
NoTask == [event |-> "None", card_name |-> "", pc |-> "done",
           rcx |-> None, graph |-> None, deque |-> None, progress |-> None]
NoReply == [event |-> "None", card_name |-> "", outcome |-> "none", message |-> "",
            result |-> "", rcx |-> None]
NoBot ==
    /\ course = Course_default
    /\ handlers = [h \in Slots |-> NoTask]
    /\ lock = 0
    /\ reply = NoReply
    /\ before_level = level
    /\ card_prototypes = <<>>
    /\ storage = Courses_new
    /\ call = NoCall
    /\ parser = NoParser
    /\ walk = NoWalk
    /\ course_lock = 0
    /\ dialogue = NoDialogue

\* STORAGE at start, then any calls on it
InitStorage ==
    /\ cards \in CourseGraphs(SyncCardNames)
    /\ impl = "UserProgress"
    /\ store = NoEntry
    /\ level = NoEntry
    /\ now = 0
    /\ pc = "idle"
    /\ op = "init"
    /\ start = store
    /\ before = store
    /\ streak = 0
    /\ panicked = FALSE
    /\ runs = 0
    /\ NoBot

\* what every call on STORAGE leaves alone
StorageFrame ==
    /\ runs' = runs + 1
    /\ UNCHANGED <<cards, impl, store, level, now, pc, start, before, streak,
                   course, handlers, lock, reply, before_level, card_prototypes, parser, walk,
                   course_lock, dialogue>>

\* CoursesWrapper::insert
Insert ==
    /\ runs < MaxCalls
    /\ storage.next_course_id < MaxCourses
    /\ \E owner_id \in UserIds :
          /\ storage' = Courses_insert(storage, owner_id)
          /\ call' = [NoCall EXCEPT !.fn = "insert", !.user_id = owner_id,
                                    !.course_id = storage.next_course_id,
                                    !.result = "id"]
    /\ op' = "insert"
    /\ panicked' = FALSE
    /\ StorageFrame

\* CoursesWrapper::add_course_to_user: the mutex is taken for the whole call;
\* a panic poisons it and inner() goes on with the value
AddCourseToUser ==
    /\ runs < MaxCalls
    /\ \E user_id \in UserIds, course_id \in CourseIds :
          LET r == Courses_add_course_to_user(storage, user_id, course_id)
          IN  /\ storage' = r.storage
              /\ call' = [fn |-> "add_course_to_user", user_id |-> user_id,
                          course_id |-> course_id,
                          exists |-> course_id \in DOMAIN storage.courses,
                          tracked |-> Tracked(storage, user_id, course_id),
                          result |-> r.result]
              /\ panicked' = (r.result = "panic")
    /\ op' = "add_course_to_user"
    /\ StorageFrame

NextStorage == Insert \/ AddCourseToUser
SpecStorage == InitStorage /\ [][NextStorage]_vars

(***************************************************************************)
(* Parsing model: DequePrototype::from_str reads any source, one character *)
(* a step.                                                                 *)
(***************************************************************************)
InitParse ==
    /\ cards = <<>>
    /\ impl = "HashMap"
    /\ store = <<>>
    /\ level = <<>>
    /\ now = 0
    /\ pc = "idle"
    /\ op = "from_str"
    /\ start = store
    /\ before = store
    /\ streak = 0
    /\ panicked = FALSE
    /\ runs = 0
    /\ NoBot

\* what the parser leaves alone
ParseFrame ==
    UNCHANGED <<cards, impl, store, level, now, pc, start, before, streak, panicked, runs,
                course, handlers, lock, reply, before_level, card_prototypes, storage, call,
                walk, course_lock, dialogue>>

\* the next character is read in the state st
Reads(st) ==
    /\ parser.state = st
    /\ Len(parser.source) < MaxLen
    /\ \E ch \in Alphabet : parser' = step(parser, ch)
    /\ op' = st
    /\ ParseFrame

ParseDefault == Reads("Default")
ParseName == Reads("NameParsing")
ParseDependencies == Reads("DependenciesParsing")
ParseDependency == Reads("DependencyParsing")

\* the source has no more characters
EndOfSource ==
    /\ parser.state \notin {"Ok", "Err"}
    /\ parser' = finish(parser)
    /\ op' = "finish"
    /\ ParseFrame

NextParse == ParseDefault \/ ParseName \/ ParseDependencies \/ ParseDependency \/ EndOfSource
SpecParse == InitParse /\ [][NextParse]_vars

(***************************************************************************)
(* Deck construction: Card::new (course-graph/src/card.rs:16-34) and the   *)
(* loop of Deque::from_str (course-graph/src/parsing/mod.rs:22-58).  Here  *)
(* cards maps a built card to its dependencies and dependents, both Vecs.  *)
(***************************************************************************)
\* Vec::push on the dependents of card dep
push_dependent(cs, dep, name) ==
    [cs EXCEPT ![dep].dependents = Append(@, name)]
\* Vec::push on the dependencies of card name
push_dependency(cs, name, dep) ==
    [cs EXCEPT ![name].dependencies = Append(@, dep)]

\* dependencies.into_iter().for_each(|dep| ..) of Card::new
RECURSIVE link(_, _, _)
link(cs, name, dependencies) ==
    IF dependencies = <<>> THEN cs
    ELSE link(push_dependency(push_dependent(cs, Head(dependencies), name),
                              name, Head(dependencies)),
              name, Tail(dependencies))

\* slip: the new card is pushed onto its own dependents as well
Card_new_own_dependent(cs, name, dependencies) ==
    LET fresh == [x \in DOMAIN cs \cup {name} |->
                    IF x = name THEN [dependencies |-> <<>>, dependents |-> <<name>>]
                    ELSE cs[x]]
    IN  link(fresh, name, dependencies)

\* Card::new: the card starts without links, then every dependency gets the
\* card as a dependent and the card gets the dependency
Card_new(cs, name, dependencies) ==
    LET fresh == [x \in DOMAIN cs \cup {name} |->
                    IF x = name THEN [dependencies |-> <<>>, dependents |-> <<>>]
                    ELSE cs[x]]
    IN  link(fresh, name, dependencies)

\* Deque::from_str, after Card::new: for dependencie in &card.borrow().dependencies
\* { dependencie.borrow_mut().dependents.push(Rc::downgrade(&card)) }
RECURSIVE push_again(_, _, _)
push_again(cs, name, dependencies) ==
    IF dependencies = <<>> THEN cs
    ELSE push_again(push_dependent(cs, Head(dependencies), name), name, Tail(dependencies))

\* slip: a prototype is built whether or not its dependencies are
Buildable_any(name) == TRUE

\* the prototype can be built: all of its dependencies are cards already
Buildable(name) == \A i \in DOMAIN card_prototypes[name] : card_prototypes[name][i] \in DOMAIN cards

\* sequences over S of length at most n
SeqsUpTo(S, n) == UNION {[1..k -> S] : k \in 0..n}
\* the card_prototypes a parsed source can give: every defined card once, its
\* dependencies any names
Prototypes == UNION {[D -> SeqsUpTo(DeckNames, MaxDeps)] : D \in SUBSET DeckNames}

InitBuild ==
    /\ card_prototypes \in Prototypes
    /\ cards = <<>>
    /\ impl = "HashMap"
    /\ store = <<>>
    /\ level = <<>>
    /\ now = 0
    /\ pc = "building"
    /\ op = "parse"
    /\ start = store
    /\ before = store
    /\ streak = 0
    /\ panicked = FALSE
    /\ runs = 0
    /\ course = Course_default
    /\ handlers = [h \in Slots |-> NoTask]
    /\ lock = 0
    /\ reply = NoReply
    /\ before_level = level
    /\ storage = Courses_new
    /\ call = NoCall
    /\ parser = NoParser
    /\ walk = NoWalk
    /\ course_lock = 0
    /\ dialogue = NoDialogue

\* one turn of the while loop: a buildable prototype is found, built, linked
\* a second time, inserted into cards and removed from card_prototypes
BuildCard ==
    /\ pc = "building"
    /\ \E name \in DOMAIN card_prototypes :
          /\ Buildable(name)
          /\ LET card == Card_new(cards, name, card_prototypes[name])
             IN  cards' = push_again(card, name, card[name].dependencies)
          /\ card_prototypes' = [x \in DOMAIN card_prototypes \ {name} |-> card_prototypes[x]]
    /\ op' = "Card_new"
    /\ runs' = runs + 1
    /\ UNCHANGED <<impl, store, level, now, pc, start, before, streak, panicked,
                   course, handlers, lock, reply, before_level, storage, call, parser, walk,
                   course_lock, dialogue>>

\* no prototype is buildable: todo!("report cycle detection")
ReportCycle ==
    /\ pc = "building"
    /\ card_prototypes # <<>>
    /\ \A name \in DOMAIN card_prototypes : ~Buildable(name)
    /\ pc' = "panicked"
    /\ panicked' = TRUE
    /\ op' = "todo"
    /\ UNCHANGED <<cards, impl, store, level, now, start, before, streak, runs, bot>>

\* the loop is left: Deque::new over the cards without dependents
DequeNew ==
    /\ pc = "building"
    /\ card_prototypes = <<>>
    /\ pc' = "built"
    /\ op' = "Deque_new"
    /\ UNCHANGED <<cards, impl, store, level, now, start, before, streak, panicked, runs, bot>>

NextBuild == BuildCard \/ ReportCycle \/ DequeNew
SpecBuild == InitBuild /\ [][NextBuild]_vars
\* from_str runs to its end once called
SpecBuildFair == SpecBuild /\ WF_vars(NextBuild)

(***************************************************************************)
(* Propagation model: detect_recursive_fails over any validated graph and  *)
(* any store contents, as the course-graph binary drives it.               *)
(***************************************************************************)
InitDetect ==
    /\ cards \in CourseGraphs(CardNames)
    /\ impl \in {"HashMap", "UserProgress"}
    /\ store \in [DOMAIN cards -> TaskProgress]
    /\ level = [c \in DOMAIN cards |-> Level_default]
    /\ now = 0
    /\ pc = "idle"
    /\ op = "init"
    /\ start = store
    /\ before = store
    /\ streak = 0
    /\ panicked = FALSE
    /\ runs = 0
    /\ NoBot

\* detect_recursive_fails, first loop (graph.rs:107-111)
FailPropagation ==
    /\ pc = "idle"
    /\ runs < MaxRuns
    /\ \E keys \in Orders(DOMAIN cards) : store' = fail_pass(cards, impl, store, keys)
    /\ pc' = "phaseB"
    /\ op' = "fail_pass"
    /\ start' = store
    /\ before' = store
    /\ UNCHANGED <<cards, impl, level, now, streak, panicked, runs, bot>>

\* detect_recursive_fails, second loop (graph.rs:112-114)
RecoveryPropagation ==
    /\ pc = "phaseB"
    /\ \E keys \in Orders(DOMAIN cards) : store' = no_fail_pass(cards, impl, store, keys)
    /\ pc' = "idle"
    /\ op' = "detect_recursive_fails"
    /\ before' = store
    /\ streak' = streak + 1
    /\ runs' = runs + 1
    /\ UNCHANGED <<cards, impl, level, now, start, panicked, bot>>

\* the driver overwrites entries between runs (progress_store.extend / insert)
Mark ==
    /\ pc = "idle"
    /\ runs < MaxRuns
    /\ \E c \in DOMAIN store, p \in {Good, Failed, NotStarted(TRUE)} :
          /\ store[c] # p
          /\ store' = [store EXCEPT ![c] = p]
    /\ op' = "mark"
    /\ start' = store
    /\ before' = store
    /\ streak' = 0
    /\ UNCHANGED <<cards, impl, level, now, pc, panicked, runs, bot>>

\* a new store is created for the graph: an empty one, then init_store
InitStore ==
    /\ pc = "idle"
    /\ runs < MaxRuns
    /\ \E keys \in Orders(DOMAIN cards) : store' = init_store(impl, <<>>, keys)
    /\ op' = "init_store"
    /\ start' = store
    /\ before' = store
    /\ streak' = 0
    /\ UNCHANGED <<cards, impl, level, now, pc, panicked, runs, bot>>

NextDetect == FailPropagation \/ RecoveryPropagation \/ Mark \/ InitStore
SpecDetect == InitDetect /\ [][NextDetect]_vars

(***************************************************************************)
(* Walk model: one run of detect_recursive_fails over any validated graph  *)
(* and any store contents, one call of the recursion a step.               *)
(***************************************************************************)
InitWalk == InitDetect

\* detect_recursive_fails is entered: self.cards.keys() of the first loop
EnterDetect ==
    /\ pc = "idle"
    /\ runs = 0
    /\ \E keys \in Orders(DOMAIN cards) : walk' = [NoWalk EXCEPT !.keys = keys]
    /\ pc' = "phaseA"
    /\ op' = "enter"
    /\ start' = store
    /\ before' = store
    /\ UNCHANGED <<cards, impl, store, level, now, streak, panicked, runs,
                   course, handlers, lock, reply, before_level, card_prototypes, storage,
                   call, parser, course_lock, dialogue>>

\* what a step of the walk leaves alone
WalkFrame ==
    /\ before' = store
    /\ UNCHANGED <<cards, impl, level, now, start, streak, panicked, runs,
                   course, handlers, lock, reply, before_level, card_prototypes, storage,
                   call, parser, course_lock, dialogue>>

\* the calls still to make after the call at the head of walk.calls made `made`;
\* the thread aborts when its stack cannot hold them
Recurse(made, state) ==
    LET calls == made \o Tail(walk.calls)
    IN  IF Len(calls) > MaxPending
        THEN /\ pc' = "overflow"
             /\ walk' = [walk EXCEPT !.name = Head(walk.calls), !.made = made]
        ELSE /\ pc' = state
             /\ walk' = [walk EXCEPT !.calls = calls, !.name = Head(walk.calls),
                                      !.made = made]

\* the closure of the first loop on the next key (graph.rs:107-111)
FailKey ==
    /\ pc = "phaseA"
    /\ walk.calls = <<>> /\ walk.keys # <<>>
    /\ LET name == Head(walk.keys)
           made == IF store[name] = Failed THEN <<name>> ELSE <<>>
       IN  walk' = [keys |-> Tail(walk.keys), calls |-> made, name |-> name, made |-> made]
    /\ op' = "fail_key"
    /\ UNCHANGED <<store, pc>>
    /\ WalkFrame

\* the next call of propagate_fail (graph.rs:80-86)
PropagateFail ==
    /\ pc = "phaseA"
    /\ walk.calls # <<>>
    /\ LET r == propagate_fail_call(cards, impl, store, walk.calls)
       IN  /\ store' = r.store
           /\ Recurse(r.made, "phaseA")
    /\ op' = "propagate_fail"
    /\ WalkFrame

\* the first loop is over: self.cards.keys() of the second loop
FailLoopEnd ==
    /\ pc = "phaseA"
    /\ walk.calls = <<>> /\ walk.keys = <<>>
    /\ \E keys \in Orders(DOMAIN cards) : walk' = [NoWalk EXCEPT !.keys = keys]
    /\ pc' = "phaseB"
    /\ op' = "fail_pass"
    /\ UNCHANGED store
    /\ WalkFrame

\* the closure of the second loop on the next key (graph.rs:112-114)
NoFailKey ==
    /\ pc = "phaseB"
    /\ walk.calls = <<>> /\ walk.keys # <<>>
    /\ LET name == Head(walk.keys)
       IN  walk' = [keys |-> Tail(walk.keys), calls |-> <<name>>, name |-> name,
                    made |-> <<name>>]
    /\ op' = "no_fail_key"
    /\ UNCHANGED <<store, pc>>
    /\ WalkFrame

\* the next call of propagate_no_fail (graph.rs:88-101)
PropagateNoFail ==
    /\ pc = "phaseB"
    /\ walk.calls # <<>>
    /\ LET r == propagate_no_fail_call(cards, impl, store, walk.calls)
       IN  /\ store' = r.store
           /\ Recurse(r.made, "phaseB")
    /\ op' = "propagate_no_fail"
    /\ WalkFrame

\* the second loop is over: detect_recursive_fails returns
NoFailLoopEnd ==
    /\ pc = "phaseB"
    /\ walk.calls = <<>> /\ walk.keys = <<>>
    /\ walk' = NoWalk
    /\ pc' = "done"
    /\ op' = "detect_recursive_fails"
    /\ before' = store
    /\ runs' = runs + 1
    /\ UNCHANGED <<cards, impl, store, level, now, start, streak, panicked,
                   course, handlers, lock, reply, before_level, card_prototypes, storage,
                   call, parser, course_lock, dialogue>>

NextWalk ==
    \/ EnterDetect \/ FailKey \/ PropagateFail \/ FailLoopEnd
    \/ NoFailKey \/ PropagateNoFail \/ NoFailLoopEnd
SpecWalk == InitWalk /\ [][NextWalk]_vars
\* the thread running detect_recursive_fails keeps running
SpecWalkFair == SpecWalk /\ WF_vars(NextWalk)

(***************************************************************************)
(* Reconciliation model: a learner's UserProgress with any contents, the   *)
(* time decay pass alone and the handler's pass followed by propagation.   *)
(***************************************************************************)
Init ==
    /\ cards \in CourseGraphs(SyncCardNames)
    /\ impl = "UserProgress"
    /\ store \in [DOMAIN cards -> TaskProgress]
    /\ level \in [DOMAIN cards -> SeedLevels]
    /\ now \in 0..MaxTime
    /\ pc = "idle"
    /\ op = "init"
    /\ start = store
    /\ before = store
    /\ streak = 0
    /\ panicked = FALSE
    /\ runs = 0
    /\ NoBot

\* UserProgress::syncronize called on its own
SyncStep ==
    /\ runs < MaxRuns
    /\ \E r \in UserProgress_syncronize(store, level, now) :
          /\ store' = r.store
          /\ panicked' = r.panicked
    /\ op' = "UserProgress_syncronize"
    /\ streak' = IF op = "UserProgress_syncronize" /\ ~panicked THEN streak + 1 ELSE 1
    /\ start' = store
    /\ before' = store
    /\ runs' = runs + 1
    /\ UNCHANGED <<cards, impl, level, now, pc, bot>>

\* event_handler::syncronize: the decay pass, then detect_recursive_fails
syncronize ==
    /\ runs < MaxRuns
    /\ \E r \in UserProgress_syncronize(store, level, now) :
          /\ panicked' = r.panicked
          /\ IF r.panicked
             THEN store' = r.store
             ELSE \E keys \in Orders(DOMAIN cards) :
                      store' = detect_recursive_fails(cards, impl, r.store, keys, keys)
    /\ op' = "syncronize"
    /\ streak' = IF op = "syncronize" /\ ~panicked THEN streak + 1 ELSE 1
    /\ start' = store
    /\ before' = store
    /\ runs' = runs + 1
    /\ UNCHANGED <<cards, impl, level, now, pc, bot>>

\* time passes between two events
Tick ==
    /\ now < MaxTime
    /\ runs < MaxRuns
    /\ now' = now + 1
    /\ op' = "tick"
    /\ streak' = 0
    /\ start' = store
    /\ before' = store
    /\ runs' = runs + 1
    /\ UNCHANGED <<cards, impl, store, level, pc, panicked, bot>>

Next == SyncStep \/ syncronize \/ Tick
Spec == Init /\ [][Next]_vars

(***************************************************************************)
(* Bot model: one learner's events handled by concurrently running         *)
(* handle_event tasks over COURSES_STORE and PROGRESS_STORE, starting with *)
(* no entry in either map.                                                 *)
(***************************************************************************)
\* events received in one behaviour
MaxEvents == 4
\* card names of the graphs and deques a learner submits
UploadNames == <<"a0", "d0">>
\* the names a learner can put into /revise_card
EventCardNames == Range(SyncCardNames) \cup Range(UploadNames)
EventKinds == {"ReviseCard", "ViewGraph", "Revise", "Clear", "ChangeCourseGraph", "ChangeDeque"}

InitBot ==
    /\ cards \in CourseGraphs(SyncCardNames)
    /\ impl = "UserProgress"
    /\ store = NoEntry
    /\ level = NoEntry
    /\ now = 0
    /\ pc = "idle"
    /\ op = "init"
    /\ start = store
    /\ before = store
    /\ streak = 0
    /\ panicked = FALSE
    /\ runs = 0
    /\ NoBot

\* the free slot a newly spawned task takes
FreeSlot == CHOOSE h \in Slots : handlers[h].event = "None" /\ \A k \in Slots : handlers[k].event = "None" => h <= k

\* what every step of a task records about itself
Step(name, outcome) ==
    /\ op' = name
    /\ panicked' = (outcome = "panicked")
    /\ before' = store
    /\ before_level' = level
    /\ UNCHANGED <<cards, impl, pc, start, streak, card_prototypes, storage, call, parser, walk,
                   course_lock, dialogue>>

\* the RefMut of the learner's PROGRESS_STORE entry can be taken
Available_unlocked(l) == TRUE
Available(l) == l = 0

\* the task in slot h ends: returned normally or unwound from a panic; a RefMut
\* it holds is dropped
Ends(h, outcome, message) ==
    /\ handlers' = [handlers EXCEPT ![h] = NoTask]
    /\ reply' = [NoReply EXCEPT !.event = handlers[h].event,
                                !.card_name = handlers[h].card_name,
                                !.outcome = outcome, !.message = message]
    /\ lock' = IF lock = h THEN 0 ELSE lock

\* the task in slot h ends on add_repetition(rcx) of card id having returned result
EndsRepetition(h, id, rcx, result) ==
    /\ handlers' = [handlers EXCEPT ![h] = NoTask]
    /\ reply' = [NoReply EXCEPT !.event = handlers[h].event, !.card_name = id,
                                !.outcome = IF result = "Ok" THEN "returned" ELSE "panicked",
                                !.result = result, !.rcx = Some(rcx)]
    /\ lock' = IF lock = h THEN 0 ELSE lock

\* the task in slot h goes on at position p
Continues(h, p) ==
    /\ handlers' = [handlers EXCEPT ![h].pc = p]
    /\ reply' = NoReply

\* event_handler: rx.recv() and tokio::spawn(handle_event(..)); a Change* event
\* carries the source the learner will answer with, if it parses
Receive ==
    /\ runs < MaxEvents
    /\ \E h \in Slots : handlers[h].event = "None"
    /\ \E t \in {[NoTask EXCEPT !.event = "ReviseCard", !.card_name = c, !.pc = "syncronize"] :
                    c \in EventCardNames}
            \cup {[NoTask EXCEPT !.event = e, !.pc = "syncronize"] : e \in {"ViewGraph", "Revise"}}
            \cup {[NoTask EXCEPT !.event = "Clear", !.pc = "clear_course"]}
            \cup {[NoTask EXCEPT !.event = "ChangeCourseGraph", !.pc = "set_course_graph",
                                 !.graph = Some(g)] : g \in CourseGraphs(UploadNames)}
            \cup {[NoTask EXCEPT !.event = "ChangeDeque", !.pc = "set_deque",
                                 !.deque = Some(Range(UploadNames))]}
            \cup {[NoTask EXCEPT !.event = e, !.pc = "rejected"] :
                    e \in {"ChangeCourseGraph", "ChangeDeque"}} :
          handlers' = [handlers EXCEPT ![FreeSlot] = t]
    /\ runs' = runs + 1
    /\ reply' = NoReply
    /\ Step("recv", "spawned")
    /\ UNCHANGED <<store, level, now, course, lock>>

\* syncronize(user_id), first half: get_progress and user_progress.syncronize(now)
SyncPass ==
    \E h \in Slots :
        /\ handlers[h].pc = "syncronize"
        /\ Available(lock)
        /\ LET p == get_progress(store, level, course)
           IN  /\ level' = p.level
               /\ \E r \in UserProgress_syncronize(p.store, p.level, now) :
                     /\ store' = r.store
                     /\ IF r.panicked
                        THEN Ends(h, "panicked", "") /\ Step("UserProgress_syncronize", "panicked")
                        ELSE /\ Continues(h, "detect_recursive_fails")
                             /\ lock' = h
                             /\ Step("UserProgress_syncronize", "returned")
        /\ UNCHANGED <<now, course, runs>>

\* the graph restricted to the cards a store has
RestrictedTo(g, S) ==
    [c \in DOMAIN g \cap S |->
        [dependencies |-> g[c].dependencies \cap S,
         dependents |-> SelectSeq(g[c].dependents, LAMBDA x : x \in S)]]

\* syncronize(user_id), second half: get_course(..).get_course_graph()
\* .detect_recursive_fails(&mut *user_progress), then the RefMut is dropped.
\* store[name] of a card the store lacks panics; the cards visited before it
\* have been propagated.
DetectPass ==
    \E h \in Slots :
        /\ handlers[h].pc = "detect_recursive_fails"
        /\ lock = h
        /\ LET g == get_course_graph(course)
           IN  IF DOMAIN g \subseteq DOMAIN store
               THEN /\ \E keys \in Orders(DOMAIN g) :
                          store' = detect_recursive_fails(g, impl, store, keys, keys)
                    /\ IF handlers[h].event = "ViewGraph"
                       THEN Ends(h, "returned", "graph") /\ Step("syncronize", "returned")
                       ELSE /\ Continues(h, IF handlers[h].event = "ReviseCard"
                                            THEN "check" ELSE "revise")
                            /\ lock' = 0
                            /\ Step("syncronize", "returned")
               ELSE /\ \E seen \in SUBSET (DOMAIN g \cap DOMAIN store) :
                        \E keys \in Orders(seen) :
                          store' = fail_pass(RestrictedTo(g, DOMAIN store), impl, store, keys)
                    /\ Ends(h, "panicked", "")
                    /\ Step("syncronize", "panicked")
        /\ UNCHANGED <<level, now, course, runs>>

\* Event::ReviseCard: matches!(get_progress(user_id)[&card_name], NotStarted{false})
CheckPrerequisites ==
    \E h \in Slots :
        /\ handlers[h].pc = "check"
        /\ Available(lock)
        /\ LET p == get_progress(store, level, course)
               card_name == handlers[h].card_name
           IN  /\ store' = p.store
               /\ level' = p.level
               /\ IF card_name \notin DOMAIN p.store
                  THEN Ends(h, "panicked", "") /\ Step("check", "panicked")
                  ELSE IF p.store[card_name] = NotStarted(FALSE)
                  THEN /\ Ends(h, "returned",
                               "You should learn all dependencies before starting new card.")
                       /\ Step("check", "returned")
                  ELSE /\ Continues(h, "handle_revise")
                       /\ UNCHANGED lock
                       /\ Step("check", "returned")
        /\ UNCHANGED <<now, course, runs>>

\* handle_revise: the task of the card is asked; the answer (or the dropped
\* dialogue) gives the RepetitionContext, review_time read when it arrives
HandleRevise ==
    \E h \in Slots :
        /\ handlers[h].pc = "handle_revise"
        /\ IF handlers[h].card_name \notin get_deque(course)
           THEN /\ Ends(h, "returned", "Card with this name not found")
                /\ Step("handle_revise", "returned")
           ELSE /\ \E q \in Quality :
                      handlers' = [handlers EXCEPT
                                      ![h].pc = "repetition",
                                      ![h].rcx = Some([quality |-> q, review_time |-> now])]
                /\ reply' = NoReply
                /\ UNCHANGED lock
                /\ Step("handle_revise", "returned")
        /\ UNCHANGED <<store, level, now, course, runs>>

\* Event::ReviseCard: get_progress(user_id).repetition(&card_name, rcx)
Repetition ==
    \E h \in Slots :
        /\ handlers[h].pc = "repetition"
        /\ Available(lock)
        /\ LET p == get_progress(store, level, course)
           IN  /\ store' = p.store
               /\ \E r \in UserProgress_repetition(p.store, p.level, handlers[h].card_name,
                                                   handlers[h].rcx[1]) :
                     /\ level' = r.level
                     /\ EndsRepetition(h, handlers[h].card_name, handlers[h].rcx[1], r.result)
                     /\ Step("repetition", IF r.panicked THEN "panicked" ELSE "returned")
        /\ UNCHANGED <<now, course, runs>>

\* Event::Revise: get_progress(user_id).revise(..): the first Failed task the
\* map yields is asked and its outcome recorded, the RefMut held throughout
ReviseFailed ==
    \E h \in Slots :
        /\ handlers[h].pc = "revise"
        /\ Available(lock)
        /\ LET p == get_progress(store, level, course)
               failing == {id \in DOMAIN p.store : p.store[id] = Failed}
           IN  /\ store' = p.store
               /\ IF failing = {}
                  THEN /\ level' = p.level
                       /\ Ends(h, "returned", "You don't have card to revise.")
                       /\ Step("revise", "returned")
                  ELSE \E id \in failing :
                          IF id \notin get_deque(course)
                          THEN /\ level' = p.level
                               /\ Ends(h, "panicked", "Card with this name not found")
                               /\ Step("revise", "panicked")
                          ELSE \E q \in Quality :
                               \E r \in Task_add_repetition(p.store[id], p.level[id],
                                            [quality |-> q, review_time |-> now]) :
                                  /\ level' = [p.level EXCEPT ![id] = r.level]
                                  /\ EndsRepetition(h, id, [quality |-> q, review_time |-> now],
                                                    r.result)
                                  /\ Step("revise", IF r.result = "Err" THEN "panicked"
                                                    ELSE "returned")
        /\ UNCHANGED <<now, course, runs>>

\* Event::Clear: *get_course(user_id) = Course::default()
ClearCourse ==
    \E h \in Slots :
        /\ handlers[h].pc = "clear_course"
        /\ course' = Course_default
        /\ handlers' = [handlers EXCEPT
                           ![h].pc = "assign_progress",
                           ![h].progress = Some(default_user_progress(Course_default))]
        /\ reply' = NoReply
        /\ Step("clear_course", "returned")
        /\ UNCHANGED <<store, level, now, lock, runs>>

\* Event::ChangeCourseGraph, Ok arm: get_course(user_id).set_course_graph(new_course_graph)
SetCourseGraph ==
    \E h \in Slots :
        /\ handlers[h].pc = "set_course_graph"
        /\ course' = set_course_graph(course, handlers[h].graph[1])
        /\ Continues(h, "reset_progress")
        /\ Step("set_course_graph", "returned")
        /\ UNCHANGED <<store, level, now, lock, runs>>

\* Event::ChangeCourseGraph, Ok arm:
\* *get_progress(user_id) = get_course(user_id).default_user_progress()
\* The right side is evaluated first and its RefMut of the course lives to the
\* end of the statement: with a vacant progress entry, or_insert_with calls
\* get_course under it and the task blocks for good, the entry locked.
ResetProgress ==
    \E h \in Slots :
        /\ handlers[h].pc = "reset_progress"
        /\ Available(lock)
        /\ IF store = NoEntry
           THEN /\ Continues(h, "blocked")
                /\ lock' = h
                /\ UNCHANGED <<store, level>>
                /\ Step("reset_progress", "blocked")
           ELSE /\ store' = default_user_progress(course).store
                /\ level' = default_user_progress(course).level
                /\ Ends(h, "returned", "Course graph changed")
                /\ Step("reset_progress", "returned")
        /\ UNCHANGED <<now, course, runs>>

\* Event::ChangeDeque, Ok arm: get_course(user_id).set_deque(new_deque)
SetDeque ==
    \E h \in Slots :
        /\ handlers[h].pc = "set_deque"
        /\ course' = set_deque(course, handlers[h].deque[1])
        /\ Continues(h, "default_user_progress")
        /\ Step("set_deque", "returned")
        /\ UNCHANGED <<store, level, now, lock, runs>>

\* Event::ChangeDeque, Ok arm:
\* let default_user_progress = get_course(user_id).default_user_progress()
ComputeProgress ==
    \E h \in Slots :
        /\ handlers[h].pc = "default_user_progress"
        /\ handlers' = [handlers EXCEPT
                           ![h].pc = "assign_progress",
                           ![h].progress = Some(default_user_progress(course))]
        /\ reply' = NoReply
        /\ Step("default_user_progress", "returned")
        /\ UNCHANGED <<store, level, now, course, lock, runs>>

\* Event::Clear: *get_progress(user_id) = new_progress;
\* Event::ChangeDeque: *get_progress(user_id) = default_user_progress
AssignProgress ==
    \E h \in Slots :
        /\ handlers[h].pc = "assign_progress"
        /\ Available(lock)
        /\ store' = handlers[h].progress[1].store
        /\ level' = handlers[h].progress[1].level
        /\ Ends(h, "returned",
                IF handlers[h].event = "Clear" THEN "Progress cleared." ELSE "Deque changed")
        /\ Step("assign_progress", "returned")
        /\ UNCHANGED <<now, course, runs>>

\* Event::ChangeCourseGraph / ChangeDeque: the source does not parse, or the
\* dialogue was dropped; nothing is changed
Rejected ==
    \E h \in Slots :
        /\ handlers[h].pc = "rejected"
        /\ Ends(h, "returned", "Your source has this errors:")
        /\ Step("rejected", "returned")
        /\ UNCHANGED <<store, level, now, course, runs>>

\* time passes between two steps
TimePasses ==
    /\ now < MaxTime
    /\ now' = now + 1
    /\ reply' = NoReply
    /\ Step("tick", "returned")
    /\ UNCHANGED <<store, level, course, handlers, lock, runs>>

NextBot ==
    \/ Receive \/ SyncPass \/ DetectPass \/ CheckPrerequisites \/ HandleRevise
    \/ Repetition \/ ReviseFailed \/ ClearCourse \/ SetCourseGraph \/ ResetProgress
    \/ SetDeque \/ ComputeProgress \/ AssignProgress \/ Rejected \/ TimePasses
SpecBot == InitBot /\ [][NextBot]_vars

(***************************************************************************)
(* Dialogue model: dialogues are set for one user, and the user presses    *)
(* buttons of the keyboards sent so far and types texts, in any order.     *)
(***************************************************************************)
Shown == {"Text", "Image", "PersonalImage"}
Asked == {"OneOf", "UserInput"}
\* the dialogues the bot sets: what it shows, then at most one question
\* (mod.rs:39-46, 98-102, 129-133, 176-186, 227-235; task.rs:18-25)
Dialogues ==
    {shown \o asked : shown \in SeqsUpTo(Shown, MaxShown),
                      asked \in {<<>>} \cup {<<a>> : a \in Asked}}
\* the labels of the buttons and the texts a user types
Responses == {"x", "y"}
Texts == {"t"}
\* the callback data the user can send: a button of a keyboard sent so far, or
\* data with an id no keyboard carries
Callbacks == {[rand_id |-> i, response |-> r] :
                 i \in {k.id : k \in dialogue.sent} \cup {0}, r \in Responses}

InitDialogue == InitBot

\* what a handler of the dialogue leaves alone
DialogueFrame ==
    UNCHANGED <<cards, impl, store, level, now, pc, start, before, streak, panicked, runs,
                course, handlers, lock, reply, before_level, card_prototypes, storage, call,
                parser, walk, course_lock>>

\* send_interactions (handlers.rs:110-120) or get_user_answer_raw (mod.rs:50-62)
\* calls set_task_for_user; on Err the latter returns by `?` and drops rx
SetTaskForUser ==
    /\ Len(dialogue.waiters) < MaxDialogues
    /\ \E interactions \in Dialogues, caller \in {"send_interactions", "get_user_answer_raw"} :
          \E r \in set_task_for_user(dialogue, interactions) :
             dialogue' = [r EXCEPT !.was = dialogue.state,
                                   !.input = NoInput,
                                   !.waiters[Len(r.waiters)].receiver =
                                       IF r.result = "Err" /\ caller = "get_user_answer_raw"
                                       THEN "dropped" ELSE @]
    /\ op' = "set_task_for_user"
    /\ DialogueFrame

\* callback_handler (handlers.rs:143-205) on a callback query of the user
CallbackHandler ==
    /\ \E q \in Callbacks :
          \E r \in callback_handler(dialogue, q) :
             dialogue' = [r EXCEPT !.was = dialogue.state, !.input = q]
    /\ op' = "callback_handler"
    /\ DialogueFrame

\* message_handler (handlers.rs:12-108) on a text that parses as no command
MessageHandler ==
    /\ \E text \in Texts :
          \E r \in message_handler(dialogue, text) :
             dialogue' = [r EXCEPT !.was = dialogue.state,
                                   !.input = [rand_id |-> 0, response |-> text]]
    /\ op' = "message_handler"
    /\ DialogueFrame

NextDialogue == SetTaskForUser \/ CallbackHandler \/ MessageHandler
SpecDialogue == InitDialogue /\ [][NextDialogue]_vars

(***************************************************************************)
(* Lock model: the accesses of concurrently running handle_event tasks of  *)
(* one user to COURSES_STORE and PROGRESS_STORE.  get_course and           *)
(* get_progress return a RefMut, the write lock of the entry's shard; it   *)
(* is dropped at the end of the statement that holds it as a temporary, or *)
(* of the scope of the variable it is bound to.                            *)
(***************************************************************************)
Access(site, takes, drops) == [site |-> site, takes |-> takes, drops |-> drops]

\* syncronize (mod.rs:318-324): user_progress is bound at 319 and lives to 324,
\* the get_course temporary of 321 lives to the end of the statement at 323
syncronize_accesses ==
    <<Access("syncronize", "PROGRESS_STORE", {}),
      Access("detect_recursive_fails", "COURSES_STORE", {"COURSES_STORE", "PROGRESS_STORE"})>>

\* the accesses of handle_event for an event, in program order
Accesses(event) ==
    CASE event = "ReviseCard" ->
            \* mod.rs:91, 93, handle_revise 333, 109
            syncronize_accesses
            \o <<Access("check", "PROGRESS_STORE", {"PROGRESS_STORE"}),
                 Access("handle_revise", "COURSES_STORE", {"COURSES_STORE"}),
                 Access("repetition", "PROGRESS_STORE", {"PROGRESS_STORE"})>>
      [] event = "ViewGraph" ->
            \* mod.rs:119, then both arguments of generate_graph at 120-123: the
            \* get_course temporary of 121 is alive while 122 calls get_progress
            syncronize_accesses
            \o <<Access("generate_graph", "COURSES_STORE", {}),
                 Access("view_progress", "PROGRESS_STORE", {"COURSES_STORE", "PROGRESS_STORE"})>>
      [] event = "ChangeCourseGraph" ->
            \* mod.rs:163-167, 201, and the assignment at 202: its right side is
            \* evaluated first and its get_course temporary lives to the end of
            \* the statement, so get_progress on the left runs under it
            <<Access("get_source", "COURSES_STORE", {"COURSES_STORE"}),
              Access("set_course_graph", "COURSES_STORE", {"COURSES_STORE"}),
              Access("default_user_progress", "COURSES_STORE", {}),
              Access("reset_progress", "PROGRESS_STORE", {"COURSES_STORE", "PROGRESS_STORE"})>>

LockEvents == {"ReviseCard", "ViewGraph", "ChangeCourseGraph"}
Running(h) == handlers[h].event # "None"
\* the access the task in slot h is at
At(h) ==
    LET program == Accesses(handlers[h].event)
    IN  program[CHOOSE i \in DOMAIN program : program[i].site = handlers[h].pc]
\* the task in slot h after the access it is at
After(h) ==
    LET program == Accesses(handlers[h].event)
        i == CHOOSE j \in DOMAIN program : program[j].site = handlers[h].pc
    IN  IF i = Len(program) THEN NoTask ELSE [handlers[h] EXCEPT !.pc = program[i + 1].site]

InitLocks == InitBot

\* what a step of the lock model leaves alone
LockFrame ==
    /\ before' = store
    /\ before_level' = level
    /\ UNCHANGED <<cards, impl, now, pc, start, streak, panicked, course, reply,
                   card_prototypes, storage, call, parser, walk, dialogue>>

\* event_handler: rx.recv() and tokio::spawn(handle_event(..))
Spawn ==
    /\ runs < MaxEvents
    /\ \E h \in Slots : ~Running(h)
    /\ \E e \in LockEvents :
          handlers' = [handlers EXCEPT
                          ![FreeSlot] = [NoTask EXCEPT !.event = e, !.pc = Accesses(e)[1].site]]
    /\ runs' = runs + 1
    /\ op' = "recv"
    /\ UNCHANGED <<store, level, lock, course_lock>>
    /\ LockFrame

\* get_course (mod.rs:22-24): COURSES_STORE.entry(user_id).or_default(), and the
\* statement around it up to the drop of its temporaries
GetCourse ==
    \E h \in Slots :
        /\ Running(h)
        /\ At(h).takes = "COURSES_STORE"
        /\ course_lock = 0
        /\ course_lock' = IF "COURSES_STORE" \in At(h).drops THEN 0 ELSE h
        /\ lock' = IF lock = h /\ "PROGRESS_STORE" \in At(h).drops THEN 0 ELSE lock
        /\ handlers' = [handlers EXCEPT ![h] = After(h)]
        /\ op' = "get_course"
        /\ UNCHANGED <<store, level, runs>>
        /\ LockFrame

\* get_progress (mod.rs:27-29): PROGRESS_STORE.entry(user_id)
Entry ==
    \E h \in Slots :
        /\ Running(h)
        /\ At(h).takes = "PROGRESS_STORE"
        /\ lock = 0
        /\ lock' = h
        /\ op' = "entry"
        /\ UNCHANGED <<store, level, handlers, course_lock, runs>>
        /\ LockFrame

\* get_progress (mod.rs:30): the entry is vacant,
\* or_insert_with(|| get_course(user_id).default_user_progress())
OrInsertWith ==
    \E h \in Slots :
        /\ Running(h)
        /\ At(h).takes = "PROGRESS_STORE"
        /\ lock = h
        /\ store = NoEntry
        /\ course_lock = 0
        /\ store' = default_user_progress(course).store
        /\ level' = default_user_progress(course).level
        /\ op' = "or_insert_with"
        /\ UNCHANGED <<handlers, lock, course_lock, runs>>
        /\ LockFrame

\* get_progress has returned the RefMut; the statement around it up to the
\* drop of its temporaries
GetProgress ==
    \E h \in Slots :
        /\ Running(h)
        /\ At(h).takes = "PROGRESS_STORE"
        /\ lock = h
        /\ store # NoEntry
        /\ lock' = IF "PROGRESS_STORE" \in At(h).drops THEN 0 ELSE h
        /\ course_lock' = IF course_lock = h /\ "COURSES_STORE" \in At(h).drops
                          THEN 0 ELSE course_lock
        /\ handlers' = [handlers EXCEPT ![h] = After(h)]
        /\ op' = "get_progress"
        /\ UNCHANGED <<store, level, runs>>
        /\ LockFrame

NextLocks == Spawn \/ GetCourse \/ Entry \/ OrInsertWith \/ GetProgress
SpecLocks == InitLocks /\ [][NextLocks]_vars

(***************************************************************************)
(* Vocabulary of the properties                                            *)
(***************************************************************************)
RECURSIVE TransitiveDependencies(_, _)
TransitiveDependencies(g, c) ==
    g[c].dependencies \cup UNION {TransitiveDependencies(g, d) : d \in g[c].dependencies}
TransitiveDependents(g, c) == {x \in DOMAIN g : c \in TransitiveDependencies(g, x)}
Usable(p) == p \in {Good, NotStarted(TRUE)}
InFailure(p) == p \in {Failed, RecursiveFailed, NotStarted(FALSE)}
Due(c) == next_repetition(level[c]) < now
\* a detect_recursive_fails call has just returned
Detected == op = "detect_recursive_fails"
\* a decay pass (alone or inside the handler) has just returned normally
Synced == op = "UserProgress_syncronize" /\ ~panicked
\* the same graph with every dependents list in the order of `names`
SortedDependents(g, names) ==
    [c \in DOMAIN g |->
        [g[c] EXCEPT !.dependents = SelectSeq(names, LAMBDA x : x \in Range(g[c].dependents))]]

(***************************************************************************)
(* C1 -- detect_recursive_fails is idempotent: a run entered right after   *)
(* another run returned changes no card's progress, neither after its      *)
(* first loop nor after its second.                          (SpecDetect)  *)
(***************************************************************************)
C1_Idempotent ==
    /\ (op = "fail_pass" /\ streak >= 1) => store = start
    /\ (Detected /\ streak >= 2) => store = start

\* a second run has returned on a store holding a Failed card and a dependent
\* of it that the first run left RecursiveFailed
C1_Witness ==
    /\ Detected /\ streak >= 2
    /\ \E f, x \in DOMAIN cards :
          f \in cards[x].dependencies /\ store[f] = Failed /\ store[x] = RecursiveFailed

(***************************************************************************)
(* C2 (as stated) -- after detect_recursive_fails a card is Good or        *)
(* NotStarted{could_be_learned: true} only if every transitive dependency  *)
(* is Good, whatever the starting store.                     (SpecDetect)  *)
(***************************************************************************)
C2_AsStated ==
    Detected =>
        \A c \in DOMAIN cards :
            Usable(store[c]) => \A d \in TransitiveDependencies(cards, c) : store[d] = Good

(***************************************************************************)
(* C2 (amended) -- after detect_recursive_fails a card is Good or          *)
(* NotStarted{could_be_learned: true} only if none of its transitive       *)
(* dependencies is Failed.                                   (SpecDetect)  *)
(***************************************************************************)
C2_NoFailedDependency ==
    Detected =>
        \A c \in DOMAIN cards :
            Usable(store[c]) => \A d \in TransitiveDependencies(cards, c) : store[d] # Failed

\* after a run, a usable card with dependencies stands next to a Failed card
C2_Witness ==
    /\ Detected
    /\ \E c, f \in DOMAIN cards :
          Usable(store[c]) /\ cards[c].dependencies # {} /\ store[f] = Failed

(***************************************************************************)
(* C3 -- after detect_recursive_fails every transitive dependent of a      *)
(* Failed card is in a failure state: RecursiveFailed if it entered the    *)
(* run Good, NotStarted{false} if it entered NotStarted, also when its     *)
(* other dependencies are Good.                              (SpecDetect)  *)
(***************************************************************************)
C3_FailureReachesDependents ==
    Detected =>
        \A f \in DOMAIN cards : store[f] = Failed =>
            \A x \in TransitiveDependents(cards, f) :
                /\ InFailure(store[x])
                /\ start[x] = Good => store[x] = RecursiveFailed
                /\ start[x].tag = "NotStarted" => store[x] = NotStarted(FALSE)

\* the diamond: d0 depends on a3 (Good) and b3 (Failed), entered Good, ends RecursiveFailed
C3_Witness ==
    /\ Detected
    /\ cards["d0"].dependencies = {"a3", "b3"}
    /\ store["a3"] = Good /\ store["b3"] = Failed
    /\ start["d0"] = Good /\ store["d0"] = RecursiveFailed

(***************************************************************************)
(* C4 -- recovery cascades: after detect_recursive_fails no card is        *)
(* RecursiveFailed or NotStarted{false} while all its direct dependencies  *)
(* are Good.                                                 (SpecDetect)  *)
(***************************************************************************)
C4_RecoveryCascades ==
    Detected =>
        \A c \in DOMAIN cards :
            store[c] \in {RecursiveFailed, NotStarted(FALSE)} =>
                \E d \in cards[c].dependencies : store[d] # Good

\* a chain of three: the bottom card was marked Good again, the two
\* RecursiveFailed cards above it are both back to Good after the re-run
C4_Witness ==
    /\ Detected
    /\ \E c1, c2, c3 \in DOMAIN cards :
          /\ cards[c2].dependencies = {c1} /\ cards[c3].dependencies = {c2}
          /\ start[c1] = Good /\ start[c2] = RecursiveFailed /\ start[c3] = RecursiveFailed
          /\ store[c1] = Good /\ store[c2] = Good /\ store[c3] = Good

(***************************************************************************)
(* C5 -- order independence: whatever order the keys were iterated in by   *)
(* either loop and whatever order the dependents lists have, the store     *)
(* after each loop is the one the name-ordered iteration yields.           *)
(*                                                           (SpecDetect)  *)
(***************************************************************************)
C5_OrderIndependent ==
    /\ op = "fail_pass" =>
          store = fail_pass(SortedDependents(cards, CardNames), impl, start, CardNames)
    /\ Detected =>
          store = detect_recursive_fails(SortedDependents(cards, CardNames), impl, start,
                                         CardNames, CardNames)

\* a run has returned on a graph whose dependents list is not in name order,
\* with a failure propagated and a recovery made
C5_Witness ==
    /\ Detected
    /\ cards # SortedDependents(cards, CardNames)
    /\ \E x, y \in DOMAIN cards :
          /\ start[x] = Good /\ store[x] = RecursiveFailed
          /\ start[y] = NotStarted(FALSE) /\ store[y] = NotStarted(TRUE)

(***************************************************************************)
(* C6 -- Phase A is monotonic: the first loop changes a card only from     *)
(* Good to RecursiveFailed or from NotStarted{true} to NotStarted{false}.  *)
(*                                                           (SpecDetect)  *)
(***************************************************************************)
C6_PhaseAMonotonic ==
    op = "fail_pass" =>
        \A c \in DOMAIN cards :
            \/ store[c] = before[c]
            \/ before[c] = Good /\ store[c] = RecursiveFailed
            \/ before[c] = NotStarted(TRUE) /\ store[c] = NotStarted(FALSE)

\* a first loop over a UserProgress that pushed one card to RecursiveFailed and
\* another to NotStarted{false}, next to a RecursiveFailed card it left alone
C6_Witness ==
    /\ op = "fail_pass" /\ impl = "UserProgress"
    /\ \E x \in DOMAIN cards : before[x] = Good /\ store[x] = RecursiveFailed
    /\ \E y \in DOMAIN cards : before[y] = NotStarted(TRUE) /\ store[y] = NotStarted(FALSE)

C8_GoodExactlyWhenFresh ==
    Synced =>
        \A c \in DOMAIN cards :
            (store[c] = Good /\ before[c] # Good)
                <=> (before[c] \in {Failed, NotStarted(TRUE)} /\ ~Due(c) /\ ~failed(level[c]))

(***************************************************************************)
(* C9 -- syncronize leaves a card unchanged in every combination other     *)
(* than the two listed transitions (due Good/RecursiveFailed to Failed;    *)
(* fresh, not failed Failed/NotStarted{true} to Good).             (Spec)  *)
(***************************************************************************)
C9_OtherwiseUnchanged ==
    Synced =>
        \A c \in DOMAIN cards :
            ~ \/ before[c] \in {Good, RecursiveFailed} /\ Due(c)
              \/ before[c] \in {Failed, NotStarted(TRUE)} /\ ~Due(c) /\ ~failed(level[c])
            => store[c] = before[c]

(***************************************************************************)
(* C10 -- reconciliation is idempotent on unchanged inputs: a second       *)
(* syncronize (alone, or followed by detect_recursive_fails) at the same   *)
(* now and with the same histories leaves every progress as the first      *)
(* left it.                                                        (Spec)  *)
(***************************************************************************)
C10_ReconcileIdempotent ==
    (op \in {"UserProgress_syncronize", "syncronize"} /\ streak >= 2 /\ ~panicked)
        => store = before

(***************************************************************************)
(* C11 -- from a freshly initialized store, through any sequence of        *)
(* syncronize, detect_recursive_fails and accepted repetitions, every      *)
(* NotStarted{could_be_learned: false} card is due whenever syncronize     *)
(* runs: the assertion of Task::syncronize never fails.         (SpecBot)  *)
(***************************************************************************)
C11_AssertionNeverFails ==
    ~(op = "UserProgress_syncronize" /\ panicked)

\* the last step was add_repetition on a card whose progress was p
Repeated(p) ==
    /\ op \in {"repetition", "revise"}
    /\ reply.result \in {"Ok", "Err"}
    /\ before[reply.card_name] = p

\* the last step appended its RepetitionContext to the history of the card
\* and left every other level and every progress alone
Recorded ==
    /\ reply.result = "Ok"
    /\ store = before
    /\ level[reply.card_name].history
         = Append(before_level[reply.card_name].history, reply.rcx[1])
    /\ \A c \in DOMAIN level \ {reply.card_name} : level[c] = before_level[c]

\* the last step returned the refusal and changed nothing
Refused ==
    /\ reply.result = "Err"
    /\ store = before
    /\ level = before_level

(* C12 -- add_repetition on a card that is NotStarted{could_be_learned:    *)
(* false} returns the refusal and leaves the card's history, its progress  *)
(* and every other card unchanged.  (SpecBot)                              *)
C12_RefusedWhenPrerequisitesUnmet ==
    Repeated(NotStarted(FALSE)) => Refused
C12_Witness ==
    Repeated(NotStarted(FALSE)) /\ reply.result = "Err"

(* C13 as stated -- add_repetition is refused only for NotStarted{false};  *)
(* on Good, Failed, RecursiveFailed and NotStarted{true} it records the    *)
(* repetition and returns Ok.                                              *)
C13_AsStated ==
    \A p \in {Good, Failed, RecursiveFailed, NotStarted(TRUE)} :
        Repeated(p) => Recorded

(* C13 -- add_repetition records the repetition and returns Ok on Failed,  *)
(* RecursiveFailed and NotStarted{true}; it is refused on NotStarted{false}*)
(* and on Good.  (SpecBot)                                                 *)
C13_RefusedOnGoodToo ==
    /\ \A p \in {Failed, RecursiveFailed, NotStarted(TRUE)} : Repeated(p) => Recorded
    /\ \A p \in {Good, NotStarted(FALSE)} : Repeated(p) => Refused
C13_Witness ==
    Repeated(Good) /\ Refused

(* C14 -- a ReviseCard event for a card whose state refuses the repetition *)
(* ends with a message to the learner and an unchanged store, and never    *)
(* panics the handler.  (SpecBot)                                          *)
C14_RefusalIsReported ==
    (/\ reply.event = "ReviseCard"
     /\ \/ op = "repetition" /\ reply.result = "Err"
        \/ op = "check" /\ reply.card_name \in DOMAIN before
                        /\ before[reply.card_name] = NotStarted(FALSE))
    => /\ reply.outcome = "returned"
       /\ reply.message # ""
       /\ store = before
       /\ level = before_level

(* C15 as stated -- initializing a store from a graph creates exactly one  *)
(* entry per card and every entry starts as NotStarted{could_be_learned:   *)
(* true}.                                                                  *)
C15_AsStated ==
    op = "init_store" =>
        /\ DOMAIN store = DOMAIN cards
        /\ \A c \in DOMAIN store : store[c] = NotStarted(TRUE)

(* C15 -- initializing a store from a graph creates exactly one entry per  *)
(* card; every entry of a HashMap store starts NotStarted{could_be_learned:*)
(* true}, every entry of a UserProgress starts NotStarted{could_be_learned:*)
(* false}.  (SpecDetect)                                                   *)
C15_OneEntryPerCard ==
    op = "init_store" =>
        /\ DOMAIN store = DOMAIN cards
        /\ \A c \in DOMAIN store : store[c] = NotStarted(impl = "HashMap")
C15_Witness ==
    /\ op = "init_store"
    /\ impl = "UserProgress"
    /\ Cardinality(DOMAIN store) = Len(CardNames)
    /\ \A c \in DOMAIN store : store[c] = NotStarted(FALSE)

(* C16 -- whenever synchronize or detect_recursive_fails runs for a        *)
(* learner, the store holds exactly one entry for every card of the        *)
(* learner's current graph, and no lookup fails.  (SpecBot)                *)
C16_StoreMatchesGraph ==
    op \in {"UserProgress_syncronize", "syncronize"} =>
        /\ DOMAIN store = DOMAIN get_course_graph(course)
        /\ ~(op = "syncronize" /\ panicked)

(* C17 -- after a repetition is recorded, synchronize and                  *)
(* detect_recursive_fails have been re-run on the store before the event   *)
(* completes: the store the handler leaves is a reconciled one.  (SpecBot) *)
C17_ReconciledAfterRecording ==
    (op \in {"repetition", "revise"} /\ reply.result = "Ok") =>
        \E r \in UserProgress_syncronize(store, level, now) :
            /\ ~r.panicked
            /\ \E keys \in Orders(DOMAIN get_course_graph(course)) :
                  store = detect_recursive_fails(
                              RestrictedTo(get_course_graph(course), DOMAIN store),
                              impl, r.store, keys, keys)

(* C18 -- two reconciliations of one learner never overlap: while a        *)
(* handler is between the time decay pass and the propagation, it holds    *)
(* the learner's store and no other handler is in that section.  (SpecBot) *)
C18_ReconciliationsExclusive ==
    \A h, k \in Slots :
        (handlers[h].pc = "detect_recursive_fails"
            /\ handlers[k].pc = "detect_recursive_fails") => (h = k /\ lock = h)
C18_Witness ==
    \E h, k \in Slots :
        /\ handlers[h].pc = "detect_recursive_fails"
        /\ handlers[k].pc = "syncronize"
        /\ lock = h

(* C19 -- synchronize is local per card: the new progress of a card is the *)
(* per-card rule applied to the card's own previous progress, its own      *)
(* level and the current time, whatever the graph and the other cards are  *)
(* (a card the aborted pass did not reach keeps its progress), and no      *)
(* level is changed.  (Spec)                                               *)
C19_LocalPerCard ==
    op = "UserProgress_syncronize" =>
        /\ level = before_level
        /\ DOMAIN store = DOMAIN before
        /\ \A c \in DOMAIN store :
              \/ store[c] = Task_syncronize(before[c], level[c], now)
              \/ panicked /\ store[c] = before[c]
        /\ ~panicked =>
              \A c, d \in DOMAIN store :
                  (before[c] = before[d] /\ level[c] = level[d]) => store[c] = store[d]
C19_Witness ==
    /\ Synced
    /\ \E c, d \in DOMAIN store :
          /\ c \in cards[d].dependencies
          /\ before[c] = Good /\ store[c] = Failed
          /\ before[d] = Good /\ store[d] = Good

(* C20 -- in every constructed graph the dependents relation is exactly    *)
(* the inverse of the dependencies relation: B is a dependent of A if and  *)
(* only if A is a dependency of B.  (SpecBuild)                            *)
C20_DependentsInverse ==
    op \in {"Card_new", "Deque_new"} =>
        \A A, B \in DOMAIN cards :
            B \in Range(cards[A].dependents) <=> A \in Range(cards[B].dependencies)
C20_Witness ==
    /\ pc = "built"
    /\ \E A, B, C \in DOMAIN cards :
          /\ cards[A].dependencies = <<>>
          /\ cards[B].dependencies = <<A>>
          /\ cards[C].dependencies = <<B, A>>
          /\ Range(cards[A].dependents) = {B, C}

\* the cards reachable from the cards S along at most n dependency links
RECURSIVE DependencyClosure(_, _)
DependencyClosure(S, n) ==
    IF n = 0 THEN S
    ELSE DependencyClosure(
             S \cup UNION {Range(cards[x].dependencies) \cap DOMAIN cards : x \in S \cap DOMAIN cards},
             n - 1)
\* no card of the deck depends, directly or through others, on itself
Acyclic ==
    \A c \in DOMAIN cards :
        c \notin DependencyClosure(Range(cards[c].dependencies), Cardinality(DOMAIN cards))
\* every dependency named by a card of the deck is a card of the deck
NoDanglingDependency ==
    \A c \in DOMAIN cards : Range(cards[c].dependencies) \subseteq DOMAIN cards

(* C21 -- graph construction from card prototypes adds a card only after   *)
(* all of its dependencies, so at every moment and in the returned graph   *)
(* every dependency is a card and there is no cycle; the returned graph    *)
(* holds every prototype; otherwise construction rejects fatally; and it   *)
(* always stops.  (SpecBuildFair)                                          *)
C21_AcyclicOrRejected ==
    /\ [](NoDanglingDependency /\ Acyclic)
    /\ [](pc = "built" => card_prototypes = <<>>)
    /\ [](pc = "panicked" => op = "todo")
    /\ <>(pc \in {"built", "panicked"})
C21_Witness ==
    /\ pc = "built"
    /\ Cardinality(DOMAIN cards) = Cardinality(DeckNames)
    /\ \E c \in DOMAIN cards : Len(cards[c].dependencies) = MaxDeps

(* C22 -- add_course_to_user returns false when the course does not exist *)
(* or is already tracked for the user, and true only when it newly starts  *)
(* tracking the course for the user.  (SpecStorage)                        *)
C22_FalseUnlessNewlyTracked ==
    call.fn = "add_course_to_user" =>
        /\ (~call.exists \/ call.tracked) => call.result = "false"
        /\ call.result = "true" =>
              (~call.tracked /\ Tracked(storage, call.user_id, call.course_id))
        /\ call.result \in {"true", "false"}

\* the string has no upper case letter
IsLower(str) == \A i \in DOMAIN str : str[i] = char_to_lowercase(str[i])
\* the source with every letter in lower case
LowerSource == [i \in DOMAIN parser.source |-> char_to_lowercase(parser.source[i])]
\* from_str has returned
Parsed == parser.state \in {"Ok", "Err"}

(* C23 -- the source parser is case-insensitive: every card name and every *)
(* dependency name is stored lowercased, a source gives what its lower     *)
(* case spelling gives, and a definition that differs from an earlier one  *)
(* only in letter case is rejected as a duplicate rather than stored as a  *)
(* second card or merged.  (SpecParse)                                     *)
C23_CaseInsensitive ==
    Parsed =>
        /\ \A name \in DOMAIN parser.cards :
              /\ IsLower(name)
              /\ \A i \in DOMAIN parser.cards[name] : IsLower(parser.cards[name][i])
        /\ LET r == from_str(LowerSource)
           IN  /\ r.state = parser.state
               /\ r.cards = parser.cards
               /\ r.error = parser.error
        /\ parser.state = "Ok" => Cardinality(DOMAIN parser.cards) = parser.inserts
C23_Witness ==
    /\ parser.state = "Err"
    /\ parser.error = "duplicate definition of card dependencies"
    /\ Len(parser.source) = 3
    /\ {parser.source[1], parser.source[3]} = {"a", "A"}

\* position i is the first of a line
LineStart(src, i) == i = 1 \/ src[i - 1] = "\n"
\* after position i the line holds nothing but spaces
OnlySpacesToLineEnd(src, i) ==
    \E j \in i..Len(src) :
        /\ \A k \in (i + 1)..j : src[k] = " "
        /\ j = Len(src) \/ src[j + 1] = "\n"
\* a line starts with a space or a colon, or a colon or a comma is followed
\* by no dependency name
Malformed(src) ==
    \E i \in DOMAIN src :
        \/ LineStart(src, i) /\ src[i] \in {" ", ":"}
        \/ src[i] \in {":", ","} /\ OnlySpacesToLineEnd(src, i)

(* C24 -- the source parser rejects every malformed line: a source with a  *)
(* line that starts with a space or a colon, with a card name followed by  *)
(* a colon and no dependency name, or with a dependency list that ends     *)
(* with a comma yields an error and no cards.  (SpecParse)                 *)
C24_MalformedRejected ==
    (Parsed /\ Malformed(parser.source)) =>
        (parser.state = "Err" /\ parser.cards = <<>>)
C24_Witness ==
    /\ op = "finish"
    /\ parser.state = "Err"
    /\ parser.error = "dependency name expected"
    /\ parser.source = <<"a", ":", "b", ",", " ">>

\* the cards a store holds as Failed
FailedCards(s) == {c \in DOMAIN s : s[c] = Failed}

(* C26 -- detect_recursive_fails never changes a card whose progress is    *)
(* Failed and never sets a card to Failed: the set of Failed cards is the  *)
(* same before and after each of its two loops.  (SpecDetect)              *)
C26_FailedSetUntouched ==
    op \in {"fail_pass", "detect_recursive_fails"} =>
        FailedCards(store) = FailedCards(before)
C26_Witness ==
    /\ Detected
    /\ \E c, d \in DOMAIN store :
          /\ c \in cards[d].dependencies
          /\ start[c] = Failed /\ store[c] = Failed
          /\ start[d] = Good /\ store[d] = RecursiveFailed

(* C29 -- for a freshly initialized UserProgress followed by               *)
(* detect_recursive_fails, a card is NotStarted{could_be_learned:true} if  *)
(* and only if it has no dependencies; every card with a dependency is     *)
(* NotStarted{could_be_learned:false}.  (SpecDetect)                       *)
C29_FreshStoreRootsLearnable ==
    (Detected /\ impl = "UserProgress"
        /\ start = init_store(impl, <<>>, SomeOrder(DOMAIN cards)))
    => \A c \in DOMAIN store : store[c] = NotStarted(cards[c].dependencies = {})
C29_Witness ==
    /\ Detected
    /\ impl = "UserProgress"
    /\ \A c \in DOMAIN start : start[c] = NotStarted(FALSE)
    /\ \E c, d \in DOMAIN store :
          /\ c \in cards[d].dependencies
          /\ store[c] = NotStarted(TRUE)
          /\ store[d] = NotStarted(FALSE)

Tracked_step == op \in {"UserProgress_syncronize", "syncronize", "repetition", "revise"}

(* C28 -- once a card has left NotStarted, no synchronize,                 *)
(* detect_recursive_fails or repetition returns it to NotStarted; only a   *)
(* reset of the learner's store does.  (SpecBot)                           *)
C28_NeverBackToNotStarted ==
    Tracked_step =>
        \A c \in DOMAIN store \cap DOMAIN before :
            before[c].tag # "NotStarted" => store[c].tag # "NotStarted"
C28_Witness ==
    /\ op = "syncronize"
    /\ \E c \in DOMAIN store \cap DOMAIN before :
          before[c] = Good /\ store[c] = RecursiveFailed

(***************************************************************************)
(* C25 -- recovery propagation is monotonic: a call of propagate_no_fail   *)
(* changes nothing but the card it is called on, changes it only from      *)
(* RecursiveFailed to Good or from NotStarted{false} to NotStarted{true},  *)
(* and only when every direct dependency of the card is Good at that       *)
(* moment; on a card with a dependency that is not Good it changes nothing *)
(* and calls none of the dependents.                                       *)
(***************************************************************************)
C25_RecoveryMonotonic ==
    op = "propagate_no_fail" =>
        LET name == walk.name
            all_good == \A d \in cards[name].dependencies : before[d] = Good
        IN  /\ \A c \in DOMAIN store \ {name} : store[c] = before[c]
            /\ store[name] # before[name] =>
                  /\ all_good
                  /\ \/ before[name] = RecursiveFailed /\ store[name] = Good
                     \/ before[name] = NotStarted(FALSE) /\ store[name] = NotStarted(TRUE)
            /\ ~all_good => (store = before /\ walk.made = <<>>)

\* a card is recovered by a call made from the call on its dependency
C25_Witness ==
    /\ op = "propagate_no_fail"
    /\ before[walk.name] = RecursiveFailed /\ store[walk.name] = Good
    /\ cards[walk.name].dependencies # {}
    /\ walk.made # <<>>

(***************************************************************************)
(* C30 -- detect_recursive_fails terminates on every acyclic graph and     *)
(* every store: both loops and every recursive walk started from them      *)
(* come to an end.                                                         *)
(***************************************************************************)
C30_Terminates == <>(pc = "done")

\* a run is over in which the failure went down a chain of three cards
C30_Witness ==
    /\ pc = "done"
    /\ \E a, b, c \in DOMAIN cards :
          /\ a \in cards[b].dependencies /\ b \in cards[c].dependencies
          /\ start[a] = Failed /\ start[b] = Good /\ start[c] = Good
          /\ store[b] = RecursiveFailed /\ store[c] = RecursiveFailed

(***************************************************************************)
(* C31 -- concurrently handled events never deadlock on COURSES_STORE and  *)
(* PROGRESS_STORE: no running handler waits for an entry that will never   *)
(* be released, because its holder is the handler itself or a handler      *)
(* that in turn waits for it.                                              *)
(***************************************************************************)
\* the slot whose RefMut the task in slot h is blocked on, 0 if it can go on
WaitsFor(h) ==
    IF ~Running(h) THEN 0
    ELSE IF At(h).takes = "COURSES_STORE" THEN course_lock
    ELSE IF lock # h THEN lock
    ELSE IF store = NoEntry THEN course_lock
    ELSE 0
RECURSIVE WaitsForever(_, _)
\* following the holders from h for n more tasks never meets one that can go on
WaitsForever(h, n) ==
    /\ WaitsFor(h) # 0
    /\ (n = 0 \/ WaitsForever(WaitsFor(h), n - 1))
Deadlocked(h) == WaitsForever(h, Cardinality(Slots))

\* two handlers wait for each other: one holds the course, the other the progress
CrossedHandlers == \E h, k \in Slots : h # k /\ WaitsFor(h) = k /\ WaitsFor(k) = h

C31_NoDeadlock == \A h \in Slots : ~Deadlocked(h)

(***************************************************************************)
(* C32 -- in a ReviseCard event the card that passed the prerequisite      *)
(* check still permits the repetition when it is recorded: whatever other  *)
(* events of the learner run while the answer is awaited, the recording    *)
(* never meets a card that is missing or NotStarted{could_be_learned:      *)
(* false}, the state the check turned away.  (SpecBot)                     *)
(***************************************************************************)
\* a ReviseCard task is past its check and the card no longer passes it
Overtaken(h) ==
    /\ handlers[h].event = "ReviseCard"
    /\ handlers[h].pc \in {"handle_revise", "repetition"}
    /\ \/ handlers[h].card_name \notin DOMAIN store
       \/ store[handlers[h].card_name] = NotStarted(FALSE)

C32_StillPermittedWhenRecorded ==
    (op = "repetition" /\ reply.event = "ReviseCard") =>
        /\ reply.card_name \in DOMAIN before
        /\ before[reply.card_name] # NotStarted(FALSE)
        /\ reply.outcome = "returned"

C35_DeliveredOnceThenIdle ==
    /\ \A w \in DOMAIN dialogue.waiters : dialogue.waiters[w].deliveries <= 1
    /\ dialogue.state.tag = "UserEvent" =>
          /\ dialogue.state.current < Len(dialogue.state.interactions)
          /\ dialogue.state.channel = Some(Owner(dialogue))
          /\ dialogue.waiters[Owner(dialogue)].got = "waiting"
    /\ (dialogue.waiters # <<>> /\ dialogue.waiters[Owner(dialogue)].got = "answers")
          => dialogue.state = Idle

\* the answers were delivered, and a later press found the State Idle
C35_Witness ==
    /\ dialogue.waiters # <<>>
    /\ dialogue.waiters[Owner(dialogue)].got = "answers"
    /\ dialogue.waiters[Owner(dialogue)].deliveries = 1
    /\ op = "callback_handler"
    /\ dialogue.was = Idle

(***************************************************************************)
(* C36 -- a dialogue set while another is in progress replaces it: the     *)
(* waiter of the earlier one observes cancellation and no answers, and     *)
(* every waiter receives only answers that its own dialogue asked for.     *)
(***************************************************************************)
C36_ReplacedIsCancelled ==
    /\ \A w \in DOMAIN dialogue.waiters :
          /\ w < Owner(dialogue) => dialogue.waiters[w].got \in {"answers", "cancelled"}
          /\ dialogue.waiters[w].got = "cancelled" => dialogue.waiters[w].answers = <<>>
          /\ dialogue.waiters[w].got = "answers" =>
                \A i \in DOMAIN dialogue.waiters[w].origin : dialogue.waiters[w].origin[i] = w
    /\ (/\ op = "set_task_for_user"
        /\ dialogue.was.tag = "UserEvent")
       => /\ dialogue.was.channel # None
          /\ dialogue.waiters[dialogue.was.channel[1]].got = "cancelled"

\* a dialogue whose keyboard was on the screen was replaced, and the later
\* dialogue got its answer from its own keyboard
C36_Witness ==
    /\ Len(dialogue.waiters) >= 2
    /\ dialogue.waiters[1].got = "cancelled"
    /\ \E k \in dialogue.sent : k.owner = 1
    /\ dialogue.waiters[2].got = "answers"
    /\ \E i \in DOMAIN dialogue.presses : AskedBy(dialogue, dialogue.presses[i].rand_id) = 2
====
